---- MODULE Spec2Model ----
(***************************************************************************)
(* The event bus of YiriMirai: mirai.bus.EventBus over                     *)
(* mirai.utils.PriorityDict, and mirai.models.bus.ModelEventBus, which     *)
(* wraps every handler in a middleware registered on a base EventBus whose *)
(* event chain follows the inheritance of the Event classes.               *)
(*                                                                         *)
(* One emit is followed from await to await.  asyncio.gather turns every   *)
(* handler of a bucket into a task; the tasks take their first step in     *)
(* the order gather created them (the iteration order of a Python set,     *)
(* which is arbitrary, so any order is allowed here) before the emit       *)
(* coroutine can be resumed.  The payload of an event (the pydantic        *)
(* schemas) is not part of the model.                                      *)
(***************************************************************************)
EXTENDS Integers, Sequences, FiniteSets, TLC

None == "None"

\* Bound on the number of subscribe / unsubscribe calls of one run.
MaxOps == 3

\* Bound on the number of handlers that raise during one emit.
MaxRaises == 1

Priorities == {0, 1}

\* Handlers registered directly on an EventBus: s1 is a plain function
\* (def), a1 and a2 are coroutine functions (async def).
Handlers == {"s1", "a1", "a2"}

\* User functions handed to ModelEventBus.subscribe.
Funcs == {"f1", "f2"}

\* The closures ModelEventBus.subscribe creates, one per call.
Middleware(i) == "m" \o ToString(i)

Middlewares == {Middleware(i) : i \in 1..(MaxOps + 1)}

Callables == Handlers \cup Middlewares

IsCoroutineFunction(f) == f \in {"a1", "a2"} \cup Middlewares

-----------------------------------------------------------------------------
(* The Event classes (mirai.models.events) and the event chain.            *)

\* Event.__indexes__: every class below Event, by name.
Indexes == {"MessageEvent", "FriendMessage", "GroupMessage"}

EventClasses == Indexes \cup {"Event"}

\* cls.__base__
Base(cls) ==
    CASE cls = "FriendMessage" -> "MessageEvent"
      [] cls = "GroupMessage"  -> "MessageEvent"
      [] cls = "MessageEvent"  -> "Event"
      [] cls = "Event"         -> "MiraiIndexedModel"
      [] OTHER                 -> "object"

\* issubclass(cls, Event)
IsSubclassOfEvent(cls) == cls \in EventClasses

\* MiraiIndexedMetaclass.get_subtype on Event: the class or ValueError.
indexed_get_subtype(name) ==
    IF name \in Indexes THEN name ELSE "ValueError"

\* EventMetaclass.get_subtype as it would be without its except clause.
get_subtype_unguarded(name) == indexed_get_subtype(name)

\* EventMetaclass.get_subtype: an unknown name falls back to Event.
get_subtype(name) ==
    IF indexed_get_subtype(name) = "ValueError"
    THEN "Event"
    ELSE indexed_get_subtype(name)

RECURSIVE chain_from(_)
chain_from(cls) ==
    IF IsSubclassOfEvent(cls)
    THEN <<cls>> \o chain_from(Base(cls))
    ELSE <<>>

\* event_chain_parents: the event's class, then every base up to Event.
event_chain_parents(event) == chain_from(get_subtype(event))

\* The type names events arrive under: a message event (GroupMessage is
\* its sibling class) and a name no Event class has.
EventNames == {"FriendMessage", "Unknown"}

\* The event names handlers are subscribed to on the plain bus.
BusEvents == {"FriendMessage", "MessageEvent"}

-----------------------------------------------------------------------------
(* PriorityDict                                                            *)

EmptyPriorityDict == [data |-> <<>>, priorities |-> <<>>]

\* PriorityDict.add
pd_add(pd, priority, value) ==
    [data |->
        [p \in DOMAIN pd.data \cup {priority} |->
            IF p = priority
            THEN (IF p \in DOMAIN pd.data THEN pd.data[p] ELSE {}) \cup {value}
            ELSE pd.data[p]],
     priorities |->
        [v \in DOMAIN pd.priorities \cup {value} |->
            IF v = value THEN priority ELSE pd.priorities[v]]]

\* self._priorities.get(value) is None: the KeyError of PriorityDict.remove
pd_key_error(pd, value) == value \notin DOMAIN pd.priorities

\* PriorityDict.remove when the value has a priority (otherwise KeyError).
pd_remove(pd, value) ==
    [data |->
        [p \in DOMAIN pd.data |->
            IF p = pd.priorities[value] THEN pd.data[p] \ {value} ELSE pd.data[p]],
     priorities |->
        [v \in DOMAIN pd.priorities \ {value} |-> pd.priorities[v]]]

RECURSIVE sorted(_)
sorted(S) ==
    IF S = {} THEN <<>>
    ELSE LET m == CHOOSE x \in S : \A y \in S : x <= y
         IN  <<m>> \o sorted(S \ {m})

\* PriorityDict.__iter__: the buckets by ascending priority (each bucket is
\* named by its priority; its content is read when the bucket is run).
pd_iter(pd) == sorted(DOMAIN pd.data)

-----------------------------------------------------------------------------
VARIABLES
    subscribers,    \* EventBus._subscribers: event name -> PriorityDict
    middlewares,    \* ModelEventBus._middlewares: func -> middleware
    closure,        \* the func each middleware closure was created for
    nops,           \* subscribe / unsubscribe calls made so far
    warned,         \* whether the last unsubscribe logged the warning
    unsubscribed,   \* <<event, callable>> unsubscribed and not subscribed since
    emit,           \* the running EventBus.emit
    task,           \* the tasks gather created for this emit, per <<event, priority, f>>
    reported        \* the tasks whose exception was handed to the error sink

VARIABLES
    local_sync_id,  \* WebSocketAdapter._local_sync_id
    recv_dict,      \* WebSocketAdapter._recv_dict: sync id -> queue of data
    wire,           \* frames the gateway has sent and _receiver has not read
    commands,       \* sync ids of the commands the gateway has not answered
    calls,          \* the call_api invocations on the WebSocket adapter, in order
    http_call       \* the last call_api on the HTTP adapter

VARIABLES
    sessions,       \* Adapter.sessions: the accounts that have a session
    bot_session,    \* Mirai._session
    session,        \* the Session object: buses, background, and whether shutdown has run
    tasks,          \* the asyncio tasks of the session, by name
    owned,          \* Tasks._tasks of the session
    bg,             \* where the _background coroutine of the session is
    sd,             \* the running Session.shutdown
    last_op         \* the last operation on bot, adapter or session, with its outcome

VARIABLES
    extra_headers,          \* WebHookAdapter.extra_headers, in insertion order
    enable_quick_response,  \* WebHookAdapter.enable_quick_response
    hook_sessions,          \* the accounts in WebHookAdapter.sessions
    request,                \* the last inbound request since the last login
    hook,                   \* the running WebHookSession.handle_event
    reply,                  \* the reply to it, once it is there
    outside                 \* a call_api made since, while no request was being handled

VARIABLES
    api_channel,        \* the accounts in ComposeAdapter.api_channel.sessions
    event_channel,      \* the accounts in ComposeAdapter.event_channel.sessions
    compose_sessions,   \* the accounts in ComposeAdapter.sessions
    compose_session,    \* per account: its login in progress and its ComposeSession
    compose_op          \* the last operation on the composite adapter

VARIABLES
    http_adapter,       \* the HTTPAdapter: verify_key, single_mode, session, headers, qq
    http_login          \* the running HTTPAdapter.login and what the logins have sent

VARIABLES
    bot_current,        \* Mirai._session while use_adapter blocks are followed
    alt_sessions,       \* the alternate adapters that hold a session for the bot's account
    blocks,             \* the use_adapter blocks entered and not left, innermost last
    use_op              \* the last step of a use_adapter block or command of the bot

VARIABLES
    approval,           \* the answer to a request event that the bot is giving
    api_model           \* the construction and call of an API model in progress

VARIABLES
    chain_op,           \* an operation on message chains and what it gave
    code_op,            \* a string on its way through serialize and deserialize
    http_poll,          \* the polls of an HTTP session and the clock of its loop
    hook_race,          \* a WebHook request that a logout runs beside
    asgi,               \* the routes of the ASGI front-end and the request it serves
    plist,              \* a PriorityList and the last operation on it
    ingest              \* the frames of a WebSocket connection on their way to emit

websocket == <<local_sync_id, recv_dict, wire, commands, calls, http_call>>

lifecycle == <<sessions, bot_session, session, tasks, owned, bg, sd, last_op>>

webhook == <<extra_headers, enable_quick_response, hook_sessions, request,
             hook, reply, outside>>

\* The state of the adapters and models that are followed in specifications
\* of their own.
compose == <<api_channel, event_channel, compose_sessions, compose_session,
             compose_op>>

http == <<http_adapter, http_login>>

use == <<bot_current, alt_sessions, blocks, use_op>>

models == <<approval, api_model>>

\* The state of the value objects and of the services followed last.
objects == <<chain_op, code_op, http_poll, hook_race, asgi, plist, ingest>>

services == <<webhook, compose, http, use, models, objects>>

\* The state of the adapters.
adapters == <<websocket, lifecycle, services>>

vars == <<subscribers, middlewares, closure, nops, warned, unsubscribed,
          emit, task, reported, adapters>>

registry == <<subscribers, middlewares, closure, nops, warned, unsubscribed>>

IdleEmit ==
    [pc |-> "idle", event |-> None, chain |-> <<>>, buckets |-> <<>>,
     gset |-> {}, gexc |-> None, coros |-> {}, produced |-> {},
     result |-> {}, exc |-> None]

\* EventBus.__init__ / ModelEventBus.__init__
InitBus ==
    /\ subscribers = [e \in EventClasses |-> EmptyPriorityDict]
    /\ middlewares = <<>>
    /\ closure = <<>>
    /\ nops = 0
    /\ warned = FALSE
    /\ unsubscribed = {}
    /\ emit = IdleEmit
    /\ task = <<>>
    /\ reported = {}

NoHttpCall == [transport |-> "none", got |-> [has_code |-> FALSE, code |-> 0, for |-> "nothing"], result |-> "none"]

NoSession == [exists |-> FALSE, buses |-> {}, background |-> None, closed |-> FALSE]

NoOp == [op |-> "none", outcome |-> "none", buses |-> {}, created |-> 0,
         via |-> "none", closed |-> FALSE, again |-> FALSE]

IdleBackground == [pc |-> "none", todo |-> {}, awaited |-> None]

IdleShutdown == [pc |-> "idle", pending |-> {}]

\* No account is logged in.
NoLogin ==
    /\ sessions = {}
    /\ bot_session = None
    /\ session = NoSession
    /\ tasks = <<>>
    /\ owned = {}
    /\ bg = IdleBackground
    /\ sd = IdleShutdown
    /\ last_op = NoOp

\* No command has been sent and no frame received.
NoTraffic ==
    /\ local_sync_id = 0
    /\ recv_dict = <<>>
    /\ wire = {}
    /\ commands = {}
    /\ calls = <<>>
    /\ http_call = NoHttpCall

\* No adapter has been created.
NoAdapter == NoTraffic /\ NoLogin

\* No inbound request has been received.
NoRequest == [headers |-> <<>>]

NoReply == [status |-> 0, error |-> "none", body |-> {}, emitted |-> 0]

IdleHook == [pc |-> "idle", running |-> {}, issued |-> {}, raised |-> <<>>, emitted |-> 0]

NoOutside == [method |-> "none", outcome |-> "none"]

\* No WebHook adapter has been created.
NoWebHook ==
    /\ extra_headers = <<>>
    /\ enable_quick_response = TRUE
    /\ hook_sessions = {}
    /\ request = NoRequest
    /\ hook = IdleHook
    /\ reply = NoReply
    /\ outside = NoOutside

\* Bound on the number of accounts of the composite adapter.
MaxAccounts == 2

ComposeAccounts == 1..MaxAccounts

NoComposeSession == [pc |-> "out", buses |-> {}, background |-> "none"]

NoComposeOp == [op |-> "none", qq |-> 0, outcome |-> "none", via |-> "none"]

\* No composite adapter is in use.
NoCompose ==
    /\ api_channel = {}
    /\ event_channel = {}
    /\ compose_sessions = {}
    /\ compose_session = [qq \in ComposeAccounts |-> NoComposeSession]
    /\ compose_op = NoComposeOp

NoHttpAdapter ==
    [verify_key |-> None, single_mode |-> FALSE, session |-> None,
     headers |-> None, qq |-> 0]

NoHttpLogin ==
    [pc |-> "idle", log |-> <<>>, token |-> "none", logins |-> 0, outcome |-> "none"]

\* No HTTP adapter logs in.
NoHttp ==
    /\ http_adapter = NoHttpAdapter
    /\ http_login = NoHttpLogin

\* The adapters given to use_adapter.
Alternates == {"alt1", "alt2"}

NoUseOp ==
    [op |-> "none", how |-> "none", adapter |-> None, before |-> None, target |-> None]

\* No use_adapter block has been entered.
NoUse ==
    /\ bot_current = None
    /\ alt_sessions = {}
    /\ blocks = <<>>
    /\ use_op = NoUseOp

\* No request event is being answered.
NoApproval == [pc |-> "none"]

\* No API model is being constructed.
NoApiModel == [pc |-> "none"]

NoModels ==
    /\ approval = NoApproval
    /\ api_model = NoApiModel

\* What a variable holds while nothing is followed with it.
Unused == [pc |-> "none"]

NoObjects ==
    /\ chain_op = Unused
    /\ code_op = Unused
    /\ http_poll = Unused
    /\ hook_race = Unused
    /\ asgi = Unused
    /\ plist = Unused
    /\ ingest = Unused

NoServices == NoWebHook /\ NoCompose /\ NoHttp /\ NoUse /\ NoModels /\ NoObjects

\* A bus on its own.
Init == InitBus /\ NoAdapter /\ NoServices

-----------------------------------------------------------------------------
(* EventBus.subscribe / unsubscribe                                        *)

\* self._subscribers[event].add(priority, func)
bus_subscribe(subs, event, func, priority) ==
    [subs EXCEPT ![event] = pd_add(@, priority, func)]

\* try: self._subscribers[event].remove(func) / except KeyError: warning
bus_unsubscribe(subs, event, func) ==
    IF pd_key_error(subs[event], func)
    THEN subs
    ELSE [subs EXCEPT ![event] = pd_remove(@, func)]

\* logger.warning in the except KeyError branch
bus_unsubscribe_warns(subs, event, func) == pd_key_error(subs[event], func)

\* The handlers the application has handed to the bus so far.  The two
\* coroutine functions are interchangeable, so a2 is taken only after a1;
\* unsubscribe is called with handlers the application has used.
Known(func) ==
    \E e \in EventClasses :
        \/ func \in DOMAIN subscribers[e].priorities
        \/ <<e, func>> \in unsubscribed

Subscribe(event, func, priority) ==
    /\ emit.pc = "idle"
    /\ func = "a2" => Known("a1")
    /\ nops < MaxOps
    /\ nops' = nops + 1
    /\ subscribers' = bus_subscribe(subscribers, event, func, priority)
    /\ warned' = FALSE
    /\ unsubscribed' = unsubscribed \ {<<event, func>>}
    /\ UNCHANGED <<middlewares, closure, emit, task, reported>>
    /\ UNCHANGED adapters

Unsubscribe(event, func) ==
    /\ emit.pc = "idle"
    /\ Known(func)
    /\ nops < MaxOps
    /\ nops' = nops + 1
    /\ subscribers' = bus_unsubscribe(subscribers, event, func)
    /\ warned' = bus_unsubscribe_warns(subscribers, event, func)
    /\ unsubscribed' = unsubscribed \cup {<<event, func>>}
    /\ UNCHANGED <<middlewares, closure, emit, task, reported>>
    /\ UNCHANGED adapters

-----------------------------------------------------------------------------
(* EventBus.emit                                                           *)

\* What a handler does when called.  A plain function returns a value that
\* is not awaitable or raises while it is being called; a coroutine function
\* returns a coroutine, which is awaited and then returns a plain value,
\* returns an awaitable (the quick response) or raises.  QuickResponse
\* (WebHookSession.QuickResponse) derives from BaseException and is raised
\* by awaiting call_api, so only by coroutine functions.
Signals == {"SkipExecution", "StopExecution", "StopPropagation"}

\* The classes `except Exception` catches.
ExceptionClasses == Signals \cup {"Exception"}

SyncOutcomes == {"plain"} \cup ExceptionClasses

AsyncOutcomes == {"plain", "awaitable", "QuickResponse"} \cup ExceptionClasses

Raises(out) == out \in ExceptionClasses \cup {"QuickResponse"}

\* The handlers that have raised in this emit so far.
Raisers ==
    {k \in DOMAIN task : task[k].st = "done" /\ (Raises(task[k].out) \/ k \in reported)}

MayEndWith(out) == Raises(out) => Cardinality(Raisers) < MaxRaises

TaskKey(event, priority, f) == <<event, priority, f>>

\* for f in listeners: the set stored under the bucket's priority, as it is
\* when the bucket is run.
Listeners(event, priority) == subscribers[event].data[priority]

\* The emit coroutine from one await to the next: a bucket without
\* listeners is gathered at once, and after the last bucket of an event the
\* chain moves to the next event, whose buckets are snapshotted with list().
RECURSIVE next_gather(_, _)
next_gather(ch, bk) ==
    IF ch = <<>>
    THEN [chain |-> <<>>, buckets |-> <<>>]
    ELSE IF bk = <<>>
    THEN IF Len(ch) = 1
         THEN [chain |-> <<>>, buckets |-> <<>>]
         ELSE next_gather(Tail(ch), pd_iter(subscribers[Head(Tail(ch))]))
    ELSE IF Listeners(Head(ch), Head(bk)) = {}
    THEN next_gather(ch, Tail(bk))
    ELSE [chain |-> ch, buckets |-> bk]

\* The record of a task whose bucket emit has left: what it raised is kept,
\* what it returned is by then in coros or dropped.
left(t) ==
    IF t.st = "done" /\ ~Raises(t.out) THEN [t EXCEPT !.out = "returned"] ELSE t

\* Runs emit up to its next suspension: asyncio.gather over the next bucket
\* that has listeners, or the return statement (every collected quick
\* response becomes a task).
run_emit(em, ch, bk, cs) ==
    LET pos == next_gather(ch, bk) IN
    IF pos.chain = <<>>
    THEN /\ emit' = [em EXCEPT !.pc = "returned", !.chain = <<>>,
                               !.buckets = <<>>, !.gset = {}, !.gexc = None,
                               !.coros = cs, !.result = cs]
         /\ task' = [k \in DOMAIN task |-> left(task[k])]
    ELSE LET e == Head(pos.chain)
             p == Head(pos.buckets)
             g == {TaskKey(e, p, f) : f \in Listeners(e, p)}
         IN  /\ emit' = [em EXCEPT !.pc = "gather", !.chain = pos.chain,
                                   !.buckets = pos.buckets, !.gset = g,
                                   !.gexc = None, !.coros = cs]
             /\ task' = [k \in DOMAIN task \cup g |->
                            IF k \in g
                            THEN [st |-> "ready", out |-> None]
                            ELSE left(task[k])]

\* await bus.emit(event, ...)
EmitStart(event) ==
    /\ emit.pc = "idle"
    /\ LET ch == event_chain_parents(event) IN
       run_emit([IdleEmit EXCEPT !.event = event], ch,
                IF ch = <<>> THEN <<>> ELSE pd_iter(subscribers[Head(ch)]), {})
    /\ UNCHANGED <<registry, reported>>
    /\ UNCHANGED adapters

\* The first step of the task of call(f) for a plain function f:
\* f(*args, **kwargs) is evaluated before async_with_exception is entered,
\* so whatever f raises leaves call(f) and ends the task with it; the first
\* task of the gather to end so sets the exception of the gather.
StartSync(k, out) ==
    /\ k \in DOMAIN task
    /\ task[k].st = "ready"
    /\ ~IsCoroutineFunction(k[3])
    /\ out \in SyncOutcomes
    /\ MayEndWith(out)
    /\ task' = [task EXCEPT ![k] = [st |-> "done", out |-> out]]
    /\ emit' = IF out # "plain" /\ k \in emit.gset /\ emit.gexc = None
               THEN [emit EXCEPT !.gexc = out]
               ELSE emit
    /\ UNCHANGED <<registry, reported>>
    /\ UNCHANGED adapters

\* The first step of the task of call(f) for a coroutine function f: the
\* coroutine f(...) is awaited inside async_with_exception.
StartAsync(k) ==
    /\ k \in DOMAIN task
    /\ task[k].st = "ready"
    /\ IsCoroutineFunction(k[3])
    /\ task' = [task EXCEPT ![k].st = "suspended"]
    /\ UNCHANGED <<registry, emit, reported>>
    /\ UNCHANGED adapters

\* async_with_exception around the awaited handler: `except Exception`
\* hands the exception to the error handler and returns None; a
\* BaseException passes.
caught(out) == out \in ExceptionClasses

\* What call(f) ends with: a quick response coroutine, an exception or None.
call_result(out) ==
    CASE out = "awaitable"  -> "coroutine"
      [] caught(out)        -> None
      [] out = "plain"      -> None
      [] OTHER              -> out

\* A middleware of ModelEventBus.subscribe: func is called through
\* async_call_with_exception, which prints an Exception and returns None.
middleware_outcome(out) ==
    IF out \in ExceptionClasses THEN "plain" ELSE out

\* The awaited handler ends.
Finish(k, out) ==
    /\ k \in DOMAIN task
    /\ task[k].st = "suspended"
    /\ out \in AsyncOutcomes
    /\ MayEndWith(out)
    /\ k[3] \notin Middlewares
    /\ task' = [task EXCEPT ![k] =
                  IF k \in emit.gset
                  THEN [st |-> "done", out |-> out]
                  ELSE left([st |-> "done", out |-> out])]
    /\ reported' = IF caught(out) THEN reported \cup {k} ELSE reported
    /\ emit' =
         IF emit.pc # "gather" THEN emit
         ELSE [emit EXCEPT
                 !.gexc = IF /\ call_result(out) \notin {None, "coroutine"}
                             /\ k \in emit.gset
                             /\ emit.gexc = None
                          THEN call_result(out) ELSE @,
                 !.produced = IF call_result(out) = "coroutine"
                              THEN @ \cup {k} ELSE @]
    /\ UNCHANGED registry
    /\ UNCHANGED adapters

CurrentDone == \A k \in emit.gset : task[k].st = "done"

CurrentStarted == \A k \in emit.gset : task[k].st # "ready"

\* coros += await asyncio.gather(*callee): every task of the bucket ended
\* without an exception.
GatherDone ==
    /\ emit.pc = "gather"
    /\ emit.gexc = None
    /\ CurrentDone
    /\ run_emit(emit, emit.chain, Tail(emit.buckets),
                emit.coros \cup {k \in emit.gset : call_result(task[k].out) = "coroutine"})
    /\ UNCHANGED <<registry, reported>>
    /\ UNCHANGED adapters

\* except SkipExecution: continue
GatherSkip ==
    /\ emit.pc = "gather"
    /\ emit.gexc = "SkipExecution"
    /\ CurrentStarted
    /\ run_emit(emit, emit.chain, Tail(emit.buckets), emit.coros)
    /\ UNCHANGED <<registry, reported>>
    /\ UNCHANGED adapters

\* except StopExecution: continue (with the next event of the chain)
GatherStop ==
    /\ emit.pc = "gather"
    /\ emit.gexc = "StopExecution"
    /\ CurrentStarted
    /\ run_emit(emit, emit.chain, <<>>, emit.coros)
    /\ UNCHANGED <<registry, reported>>
    /\ UNCHANGED adapters

\* emit as it would be without the except StopPropagation clause: the
\* exception of the gather leaves emit.
GatherStopPropagationUncaught ==
    /\ emit.pc = "gather"
    /\ emit.gexc = "StopPropagation"
    /\ CurrentStarted
    /\ emit' = [emit EXCEPT !.pc = "raised", !.exc = emit.gexc]
    /\ task' = [k \in DOMAIN task |-> left(task[k])]
    /\ UNCHANGED <<registry, reported>>
    /\ UNCHANGED adapters

\* except StopPropagation: pass
GatherStopPropagation ==
    /\ emit.pc = "gather"
    /\ emit.gexc = "StopPropagation"
    /\ CurrentStarted
    /\ run_emit(emit, <<>>, <<>>, emit.coros)
    /\ UNCHANGED <<registry, reported>>
    /\ UNCHANGED adapters

\* Any other exception of the gather leaves emit.
GatherRaise ==
    /\ emit.pc = "gather"
    /\ emit.gexc \notin Signals \cup {None}
    /\ CurrentStarted
    /\ emit' = [emit EXCEPT !.pc = "raised", !.exc = emit.gexc]
    /\ task' = [k \in DOMAIN task |-> left(task[k])]
    /\ UNCHANGED <<registry, reported>>
    /\ UNCHANGED adapters

\* The caller has the outcome of emit; the next emit can be awaited.
EmitEnd ==
    /\ emit.pc \in {"returned", "raised"}
    /\ \A k \in DOMAIN task : task[k].st = "done"
    /\ emit' = IdleEmit
    /\ task' = <<>>
    /\ reported' = {}
    /\ UNCHANGED registry
    /\ UNCHANGED adapters

-----------------------------------------------------------------------------
(* ModelEventBus                                                           *)

\* if isinstance(event_type, str): event_type = Event.get_subtype(event_type)
resolve_event_type(event_type) ==
    IF event_type \in EventClasses THEN event_type ELSE get_subtype(event_type)

\* self._middlewares[func] of a defaultdict(type(None))
middleware_of(func) ==
    IF func \in DOMAIN middlewares THEN middlewares[func] ELSE None

\* The functions the application has handed to the model bus so far (f2
\* is taken only after f1, the two being interchangeable).
KnownFunc(func) == \E c \in DOMAIN closure : closure[c] = func

\* ModelEventBus.subscribe: a new middleware closure over func replaces the
\* entry of func in _middlewares and is subscribed on the base bus under the
\* class name, with the default priority 0.
ModelSubscribe(event_type, func) ==
    /\ emit.pc = "idle"
    /\ func = "f2" => KnownFunc("f1")
    /\ nops < MaxOps
    /\ nops' = nops + 1
    /\ LET m == Middleware(Cardinality(DOMAIN closure) + 1) IN
       /\ closure' = [c \in DOMAIN closure \cup {m} |->
                        IF c = m THEN func ELSE closure[c]]
       /\ middlewares' = [f \in DOMAIN middlewares \cup {func} |->
                            IF f = func THEN m ELSE middlewares[f]]
       /\ subscribers' = bus_subscribe(subscribers,
                                       resolve_event_type(event_type), m, 0)
    /\ warned' = FALSE
    /\ unsubscribed' = unsubscribed \ {<<resolve_event_type(event_type), func>>}
    /\ UNCHANGED <<emit, task, reported>>
    /\ UNCHANGED adapters

\* ModelEventBus.unsubscribe: the middleware now stored for func (None when
\* there is none) is unsubscribed from the base bus under the class name,
\* then the entry of func is deleted.
ModelUnsubscribe(event_type, func) ==
    /\ emit.pc = "idle"
    /\ KnownFunc(func)
    /\ nops < MaxOps
    /\ nops' = nops + 1
    /\ LET m == middleware_of(func)
           e == resolve_event_type(event_type)
       IN  /\ subscribers' = bus_unsubscribe(subscribers, e, m)
           /\ warned' = bus_unsubscribe_warns(subscribers, e, m)
           /\ unsubscribed' = unsubscribed \cup {<<e, func>>}
    /\ middlewares' = [f \in DOMAIN middlewares \ {func} |-> middlewares[f]]
    /\ UNCHANGED <<closure, emit, task, reported>>
    /\ UNCHANGED adapters

\* The awaited middleware ends: func returned or raised `out`.
FinishMiddleware(k, out) ==
    /\ k \in DOMAIN task
    /\ task[k].st = "suspended"
    /\ out \in AsyncOutcomes
    /\ MayEndWith(out)
    /\ k[3] \in Middlewares
    /\ task' = [task EXCEPT ![k] =
                  IF k \in emit.gset
                  THEN [st |-> "done", out |-> middleware_outcome(out)]
                  ELSE left([st |-> "done", out |-> middleware_outcome(out)])]
    /\ reported' = IF out \in ExceptionClasses THEN reported \cup {k} ELSE reported
    /\ emit' =
         IF emit.pc # "gather" THEN emit
         ELSE [emit EXCEPT
                 !.gexc = IF /\ call_result(middleware_outcome(out)) \notin {None, "coroutine"}
                             /\ k \in emit.gset
                             /\ emit.gexc = None
                          THEN call_result(middleware_outcome(out)) ELSE @,
                 !.produced = IF call_result(middleware_outcome(out)) = "coroutine"
                              THEN @ \cup {k} ELSE @]
    /\ UNCHANGED registry
    /\ UNCHANGED adapters

-----------------------------------------------------------------------------
Dispatch ==
    \/ \E k \in DOMAIN task, out \in SyncOutcomes : StartSync(k, out)
    \/ \E k \in DOMAIN task : StartAsync(k)
    \/ \E k \in DOMAIN task, out \in AsyncOutcomes : Finish(k, out)
    \/ GatherDone
    \/ GatherSkip
    \/ GatherStop
    \/ GatherStopPropagation
    \/ GatherRaise
    \/ EmitEnd

Next ==
    \/ \E e \in BusEvents, f \in Handlers, p \in Priorities : Subscribe(e, f, p)
    \/ \E e \in BusEvents, f \in Handlers : Unsubscribe(e, f)
    \/ EmitStart("FriendMessage")
    \/ Dispatch

Spec == Init /\ [][Next]_vars

\* The bus of a ModelEventBus: handlers are registered through the model
\* bus, events arrive on the base bus under their type name.
NextModel ==
    \/ \E e \in EventClasses, f \in Funcs : ModelSubscribe(e, f)
    \/ \E e \in EventClasses, f \in Funcs : ModelUnsubscribe(e, f)
    \/ \E e \in EventNames : EmitStart(e)
    \/ \E k \in DOMAIN task : StartAsync(k)
    \/ \E k \in DOMAIN task, out \in AsyncOutcomes : FinishMiddleware(k, out)
    \/ GatherDone
    \/ GatherRaise
    \/ EmitEnd

SpecModel == Init /\ [][NextModel]_vars

-----------------------------------------------------------------------------
(* Properties                                                              *)

\* The handler of task k has been called.
Started(k) == k \in DOMAIN task /\ task[k].st # "ready"

\* The handler of task k ended by raising x.
RaisedIn(k, x) == k \in DOMAIN task /\ task[k].st = "done" /\ task[k].out = x

\* emit is over and so is every task it created.
EmitOver ==
    /\ emit.pc \in {"returned", "raised"}
    /\ \A k \in DOMAIN task : task[k].st = "done"

\* The registrations of the bus, as <<event, priority, callable>>.
RegisteredKeys ==
    {k \in EventClasses \X Priorities \X Callables :
        /\ k[2] \in DOMAIN subscribers[k[1]].data
        /\ k[3] \in subscribers[k[1]].data[k[2]]}

\* The event chain of a FriendMessage and of an event of unknown type, as
\* the class hierarchy of mirai.models.events gives them.
ExpectedChain(event) ==
    IF event = "FriendMessage"
    THEN <<"FriendMessage", "MessageEvent", "Event">>
    ELSE <<"Event">>

ChainIndex(e) ==
    LET ch == ExpectedChain(emit.event) IN
    CHOOSE i \in 1..Len(ch) : ch[i] = e

OnChain(k) ==
    \E i \in 1..Len(ExpectedChain(emit.event)) : ExpectedChain(emit.event)[i] = k[1]

\* The bucket of k2 comes after the bucket of k in the order of dispatch:
\* a later priority of the same type, or an ancestor type.
After(k, k2) ==
    \/ k2[1] = k[1] /\ k2[2] > k[2]
    \/ ChainIndex(k2[1]) > ChainIndex(k[1])

\* The function the application registered: the one a middleware wraps.
HandlerOf(c) == IF c \in DOMAIN closure THEN closure[c] ELSE c

\* C1: within one emit, no handler of a bucket of priority q of an event
\* type has started unless every handler of every bucket of priority p < q
\* of that type has completed.
PriorityOrder ==
    \A k1 \in DOMAIN task, k2 \in DOMAIN task :
        (k1[1] = k2[1] /\ k1[2] < k2[2] /\ Started(k2)) => task[k1].st = "done"

\* C2: when a handler (the only one to raise) has raised StopPropagation,
\* no handler of a later bucket of its type or of an ancestor type is
\* called, and emit does not raise.
StopPropagationSuppresses ==
    \A k \in DOMAIN task :
        (RaisedIn(k, "StopPropagation") /\ Raisers = {k}) =>
            /\ emit.pc # "raised"
            /\ \A k2 \in DOMAIN task : After(k, k2) => ~Started(k2)

\* C3: when a handler (the only one to raise) has raised SkipExecution in
\* bucket P of type T, emit does not raise, nothing of bucket P reaches
\* the result of emit, and once emit is over every handler of the later
\* buckets of T and of the ancestor types has been called.
SkipExecutionAbandonsBucket ==
    \A k \in DOMAIN task :
        (RaisedIn(k, "SkipExecution") /\ Raisers = {k}) =>
            /\ emit.pc # "raised"
            /\ \A k2 \in emit.result : ~(k2[1] = k[1] /\ k2[2] = k[2])
            /\ EmitOver =>
                 \A k2 \in RegisteredKeys :
                     (OnChain(k2) /\ After(k, k2)) => Started(k2)

\* C4: when a handler (the only one to raise) has raised StopExecution
\* for type T, no handler of a later bucket of T is called, and once emit
\* is over every handler of the following types of the chain has been
\* called.
StopExecutionLeavesType ==
    \A k \in DOMAIN task :
        (RaisedIn(k, "StopExecution") /\ Raisers = {k}) =>
            /\ \A k2 \in DOMAIN task :
                   (k2[1] = k[1] /\ k2[2] > k[2]) => ~Started(k2)
            /\ EmitOver =>
                 \A k2 \in RegisteredKeys :
                     (OnChain(k2) /\ ChainIndex(k2[1]) > ChainIndex(k[1]))
                         => Started(k2)

\* C5: when a handler (the only one to raise) has raised an exception that
\* is no control-flow signal, the exception is handed to the error sink,
\* emit does not raise, and once emit is over every registered handler of
\* the chain has been called.
ExceptionIsReported ==
    \A k \in DOMAIN task :
        (RaisedIn(k, "Exception") /\ Raisers = {k}) =>
            /\ k \in reported
            /\ emit.pc # "raised"
            /\ EmitOver => \A k2 \in RegisteredKeys : OnChain(k2) => Started(k2)

\* C6: a handler subscribed again to an event type with another priority
\* is called once per emit of that type, in the bucket of the priority
\* given last.
Reprioritized ==
    \A k \in DOMAIN task :
        /\ k[3] \in DOMAIN subscribers[k[1]].priorities
               => k[2] = subscribers[k[1]].priorities[k[3]]
        /\ \A k2 \in DOMAIN task : (k2[1] = k[1] /\ k2[3] = k[3]) => k2 = k

\* C7: no emit calls a handler through a registration on an event type from
\* which the handler has been unsubscribed and not subscribed again.
UnsubscribedNotCalled ==
    \A k \in DOMAIN task : Started(k) => <<k[1], HandlerOf(k[3])>> \notin unsubscribed

ResultHoldsQuickResponses ==
    emit.pc = "returned" => emit.result = emit.produced

\* C10 as stated: neither SkipExecution, StopExecution, StopPropagation nor
\* QuickResponse leaves emit.
NoSignalLeavesEmit ==
    emit.pc = "raised" => emit.exc \notin Signals \cup {"QuickResponse"}

\* C10: neither SkipExecution, StopExecution nor StopPropagation leaves
\* emit.
NoBusSignalLeavesEmit ==
    emit.pc = "raised" => emit.exc \notin Signals

\* A plain function has raised StopPropagation and emit has returned.
BusSignalCaught ==
    /\ emit.pc = "returned"
    /\ \E k \in DOMAIN task :
           ~IsCoroutineFunction(k[3]) /\ RaisedIn(k, "StopPropagation")

-----------------------------------------------------------------------------
(* WebSocketAdapter: commands and their responses                          *)
(*                                                                         *)
(* call_api numbers a command with a sync id, sends it and polls           *)
(* _recv_dict under that id; _receiver files every frame it reads under    *)
(* the syncId the frame carries.  The gateway answers every command once,  *)
(* in any order and at any time, and sends event frames under the sync id  *)
(* of the adapter.                                                         *)

\* Bound on the number of call_api invocations on the WebSocket adapter.
MaxCalls == 2

\* Bound on the number of events waiting in _recv_dict.
MaxEvents == 1

\* self._local_sync_id = random.randint(1, 1024) * 1024: the least and the
\* greatest value.
LocalSyncIdStarts == {1 * 1024, 1024 * 1024}

\* The sync_id parameter of WebSocketAdapter.__init__ (its default), under
\* which the gateway sends events.
sync_id == "-1"

\* await self._recv(''): the syncId of the verify response of login.
login_sync_id == ""

\* The error code of a gateway reply: none at all, 0 or an error.
Codes == {0, 5}

Data(has_code, code, for) == [has_code |-> has_code, code |-> code, for |-> for]

NoData == Data(FALSE, 0, "nothing")

\* data.get('code', 0)
code_of(data) == IF data.has_code THEN data.code ELSE 0

\* self._local_sync_id without the increment.
same_sync_id(n) == n

\* self._local_sync_id += 1
next_sync_id(n) == n + 1

\* str(self._local_sync_id)
str(n) == ToString(n)

\* self._recv_dict[key] of a defaultdict(deque): reading creates the entry.
recv_dict_touch(d, key) ==
    IF key \in DOMAIN d THEN d
    ELSE [k \in DOMAIN d \cup {key} |-> IF k = key THEN <<>> ELSE d[k]]

\* self._recv_dict[key].append(data)
recv_dict_append(d, key, data) ==
    [recv_dict_touch(d, key) EXCEPT ![key] = Append(@, data)]

\* self._recv_dict[key].popleft()
recv_dict_popleft(d, key) == [d EXCEPT ![key] = Tail(@)]

\* WebSocketAdapter.__init__ with the connection of login, and
\* HTTPAdapter.__init__.
InitAdapters ==
    /\ local_sync_id \in LocalSyncIdStarts
    /\ recv_dict = <<>>
    /\ wire = {}
    /\ commands = {}
    /\ calls = <<>>
    /\ http_call = NoHttpCall
    /\ NoLogin

InitWs == InitBus /\ InitAdapters /\ NoServices

bus == <<subscribers, middlewares, closure, nops, warned, unsubscribed,
         emit, task, reported>>

\* The calls that are inside _recv.
Waiting == {i \in DOMAIN calls : calls[i].pc = "recv"}

\* call_api up to its first look into _recv_dict: the command is numbered
\* and sent.  The heartbeat task awaits its call, so it has one call at a
\* time.
CallApi(owner) ==
    /\ Len(calls) < MaxCalls
    /\ owner = "heartbeat" =>
           \A i \in Waiting : calls[i].owner # "heartbeat"
    /\ local_sync_id' = next_sync_id(local_sync_id)
    /\ LET id == str(local_sync_id') IN
       /\ commands' = commands \cup {id}
       /\ calls' = Append(calls, [sync_id |-> id, owner |-> owner,
                                  pc |-> "recv", got |-> NoData,
                                  result |-> "pending"])
       /\ recv_dict' = recv_dict_touch(recv_dict, id)
    /\ UNCHANGED <<bus, wire, http_call>>
    /\ UNCHANGED <<lifecycle, services>>

\* The gateway answers a command.
GatewayReply(id, has_code, code) ==
    /\ id \in commands
    /\ has_code \/ code = 0
    /\ commands' = commands \ {id}
    /\ wire' = wire \cup {[syncId |-> id, data |-> Data(has_code, code, id)]}
    /\ UNCHANGED <<bus, local_sync_id, recv_dict, calls, http_call>>
    /\ UNCHANGED <<lifecycle, services>>

EventFrame == [syncId |-> sync_id, data |-> Data(FALSE, 0, "event")]

\* The events _receiver has filed and poll_event has not taken.
QueuedEvents ==
    IF sync_id \in DOMAIN recv_dict THEN Len(recv_dict[sync_id]) ELSE 0

\* The gateway sends an event.
GatewayEvent ==
    /\ EventFrame \notin wire
    /\ QueuedEvents < MaxEvents
    /\ wire' = wire \cup {EventFrame}
    /\ UNCHANGED <<bus, local_sync_id, recv_dict, commands, calls, http_call>>
    /\ UNCHANGED <<lifecycle, services>>

\* The syncId under which a frame would be filed if responses were matched
\* to the oldest waiting call.
oldest_waiting(response) ==
    IF Waiting = {} THEN response.syncId
    ELSE calls[CHOOSE i \in Waiting : \A j \in Waiting : i <= j].sync_id

\* response['syncId']
frame_key(response) == response.syncId

\* _receiver: one frame is read and filed.
Receiver(response) ==
    /\ response \in wire
    /\ wire' = wire \ {response}
    /\ recv_dict' = recv_dict_append(recv_dict, frame_key(response), response.data)
    /\ UNCHANGED <<bus, local_sync_id, commands, calls, http_call>>
    /\ UNCHANGED <<lifecycle, services>>

\* _recv without the check of the code.
recv_unchecked(data) == "data"

\* _recv: raise ApiError(data) if data.get('code', 0) != 0, else return data
recv_outcome(data) == IF code_of(data) # 0 THEN "ApiError" ELSE "data"

\* _recv finds data under the sync id of the call; call_api returns it or
\* lets the ApiError pass.
Recv(i) ==
    /\ i \in Waiting
    /\ recv_dict[calls[i].sync_id] # <<>>
    /\ LET data == Head(recv_dict[calls[i].sync_id]) IN
       calls' = [calls EXCEPT ![i].pc = "done", ![i].got = data,
                              ![i].result = recv_outcome(data)]
    /\ recv_dict' = recv_dict_popleft(recv_dict, calls[i].sync_id)
    /\ UNCHANGED <<bus, local_sync_id, wire, commands, http_call>>
    /\ UNCHANGED <<lifecycle, services>>

\* _recv runs out of rounds with nothing under the sync id and raises
\* TimeoutError; call_api catches it, logs it and returns None.
RecvTimeout(i) ==
    /\ i \in Waiting
    /\ recv_dict[calls[i].sync_id] = <<>>
    /\ calls' = [calls EXCEPT ![i].pc = "timeout", ![i].result = "None"]
    /\ UNCHANGED <<bus, local_sync_id, recv_dict, wire, commands, http_call>>
    /\ UNCHANGED <<lifecycle, services>>

\* poll_event: _recv(self.sync_id, -1) takes the next event.
PollEvent ==
    /\ sync_id \in DOMAIN recv_dict
    /\ recv_dict[sync_id] # <<>>
    /\ recv_dict' = recv_dict_popleft(recv_dict, sync_id)
    /\ UNCHANGED <<bus, local_sync_id, wire, commands, calls, http_call>>
    /\ UNCHANGED <<lifecycle, services>>

\* _parse_response: raise_for_status, then the check of the code.
parse_response(response) ==
    IF response.status >= 400 THEN "HTTPStatusError"
    ELSE IF code_of(response.data) # 0 THEN "ApiError"
    ELSE "data"

\* What the transport of an HTTP request ends with.
Transports == {"response", "TimeoutException", "NetworkError"}

\* HTTPAdapter.call_api through _get / _post: a request that times out
\* returns None, a network error is raised as NetworkError, a response goes
\* through _parse_response.  A gateway reply comes with status 200.
HttpCallApi(transport, status, has_code, code) ==
    /\ has_code \/ code = 0
    /\ transport = "response" \/ (status = 200 /\ ~has_code)
    /\ status = 200 \/ ~has_code
    /\ LET response == [status |-> status,
                        data |-> IF transport = "response" /\ status = 200
                                 THEN Data(has_code, code, "http")
                                 ELSE NoData]
       IN  http_call' =
              [transport |-> transport, got |-> response.data,
               result |-> CASE transport = "TimeoutException" -> "None"
                            [] transport = "NetworkError" -> "NetworkError"
                            [] OTHER -> parse_response(response)]
    /\ UNCHANGED <<bus, local_sync_id, recv_dict, wire, commands, calls>>
    /\ UNCHANGED <<lifecycle, services>>

NextWs ==
    \/ \E owner \in {"app", "heartbeat"} : CallApi(owner)
    \/ \E id \in commands, has_code \in BOOLEAN, code \in Codes :
           GatewayReply(id, has_code, code)
    \/ GatewayEvent
    \/ \E response \in wire : Receiver(response)
    \/ \E i \in DOMAIN calls : Recv(i)
    \/ \E i \in DOMAIN calls : RecvTimeout(i)
    \/ PollEvent

SpecWs == InitWs /\ [][NextWs]_vars

\* The replies of the gateway to the commands of an application on a
\* WebSocket adapter and on an HTTP adapter.
NextApi ==
    \/ CallApi("app")
    \/ \E id \in commands, has_code \in BOOLEAN, code \in Codes :
           GatewayReply(id, has_code, code)
    \/ \E response \in wire : Receiver(response)
    \/ \E i \in DOMAIN calls : Recv(i)
    \/ \E transport \in Transports, status \in {200, 500},
          has_code \in BOOLEAN, code \in Codes :
           HttpCallApi(transport, status, has_code, code)

SpecApi == InitWs /\ [][NextApi]_vars

\* C11: the sync ids of the call_api invocations of a WebSocket adapter
\* differ from one another, and none is the empty sync id of login or the
\* sync id of events.
SyncIdsUnique ==
    /\ \A i \in DOMAIN calls, j \in DOMAIN calls :
           i # j => calls[i].sync_id # calls[j].sync_id
    /\ \A i \in DOMAIN calls : calls[i].sync_id \notin {login_sync_id, sync_id}

\* Several sync ids are assigned, and a call of the application and a call
\* of the heartbeat wait for their responses at once.
SyncIdsUniqueReached ==
    /\ Len(calls) = MaxCalls
    /\ \E i \in Waiting, j \in Waiting :
           calls[i].owner = "app" /\ calls[j].owner = "heartbeat"

\* C12: a call_api that has got data has got the data of the response to
\* its own command, not that of another command or of an event.
ResponsesMatched ==
    \A i \in DOMAIN calls :
        calls[i].pc = "done" => calls[i].got.for = calls[i].sync_id

\* A later command has its response while an earlier one still waits for
\* its own and an event is queued.
ResponsesMatchedReached ==
    /\ \E i \in Waiting, j \in DOMAIN calls : i < j /\ calls[j].pc = "done"
    /\ sync_id \in DOMAIN recv_dict
    /\ recv_dict[sync_id] # <<>>

\* C13: _recv_dict has no entry under the sync id of a command that has
\* timed out.
TimedOutLeavesNoEntry ==
    \A i \in DOMAIN calls :
        calls[i].pc = "timeout" => calls[i].sync_id \notin DOMAIN recv_dict

\* C14: a call_api whose response has not come in time ends with a
\* TimeoutError.
TimeoutIsRaised ==
    \A i \in DOMAIN calls :
        calls[i].pc = "timeout" => calls[i].result = "TimeoutError"

-----------------------------------------------------------------------------
(* Session.shutdown of a WebSocket session                                 *)
(*                                                                         *)
(* The session has been started: its background task runs _background,     *)
(* which creates the heartbeat task and, for every event poll_event gets,  *)
(* an emit task kept in self._tasks.  A handler's quick response is a task *)
(* EventBus.emit creates with asyncio.create_task; it is in no Tasks       *)
(* object.  A task here is ready (created, not yet run), running, waiting  *)
(* (inside call_api, in _recv), or done: cancelled, failed or finished.    *)
(* The sync ids and frames of the commands are followed in SpecWs.         *)

\* Bound on the number of emit tasks of the session.
MaxEmits == 2

\* Bound on the number of tasks that end with an exception.
MaxFailures == 1

EmitTask(i) == "emit" \o ToString(i)

EmitTasks == {EmitTask(i) : i \in 1..MaxEmits}

\* The tasks _background creates.
Children == {"heartbeat"} \cup EmitTasks

\* A task that calls the API outside the tasks of the session: a quick
\* response.
Outsiders == {"quick"}

\* asyncio.Task.done()
Done(t) == t \in DOMAIN tasks /\ tasks[t] \in {"cancelled", "failed", "finished"}

create_task(ts, t) == [k \in DOMAIN ts \cup {t} |-> IF k = t THEN "running" ELSE ts[k]]

\* task.cancel() on a child: a task that is not done is thrown
\* CancelledError where it awaits and ends cancelled; a done task is left.
task_cancel(ts, t) ==
    IF ts[t] \in {"ready", "running", "waiting"}
    THEN [ts EXCEPT ![t] = "cancelled"]
    ELSE ts

\* The state after adapter.login, register_event_bus and start.
SessionStarted ==
    /\ sessions = {"qq"}
    /\ bot_session = "session"
    /\ session = [exists |-> TRUE, buses |-> {"bus"},
                  background |-> "background", closed |-> FALSE]
    /\ tasks = [t \in {"background"} |-> "ready"]
    /\ owned = {}
    /\ bg = [IdleBackground EXCEPT !.pc = "ready"]
    /\ sd = IdleShutdown
    /\ last_op = NoOp

InitStarted == InitBus /\ NoTraffic /\ SessionStarted /\ NoServices

\* _background runs up to its first await: heartbeat =
\* asyncio.create_task(self._heartbeat()), then poll_event.
BackgroundBegin ==
    /\ bg.pc = "ready"
    /\ bg' = [bg EXCEPT !.pc = "poll"]
    /\ tasks' = create_task([tasks EXCEPT !["background"] = "running"], "heartbeat")
    /\ UNCHANGED <<bus, websocket, services, sessions, bot_session, session, owned, sd, last_op>>

\* poll_event gets an event: self._tasks.create_task(self.emit(...)).
BackgroundPoll ==
    /\ bg.pc = "poll"
    /\ \E i \in 1..MaxEmits :
        /\ EmitTask(i) \notin DOMAIN tasks
        /\ \A j \in 1..(i - 1) : EmitTask(j) \in DOMAIN tasks
        /\ tasks' = create_task(tasks, EmitTask(i))
        /\ owned' = owned \cup {EmitTask(i)}
    /\ UNCHANGED <<bus, websocket, services, sessions, bot_session, session, bg, sd, last_op>>

\* A handler of a running emit returns an awaitable: EventBus.emit makes
\* it a task.
QuickStart ==
    /\ "quick" \notin DOMAIN tasks
    /\ \E t \in EmitTasks : t \in DOMAIN tasks /\ tasks[t] = "running"
    /\ tasks' = create_task(tasks, "quick")
    /\ UNCHANGED <<bus, websocket, services, sessions, bot_session, session, owned, bg, sd, last_op>>

\* A task calls call_api and waits in _recv for the response.
TaskCallApi(t) ==
    /\ t \in Children \cup Outsiders
    /\ t \in DOMAIN tasks
    /\ tasks[t] = "running"
    /\ tasks' = [tasks EXCEPT ![t] = "waiting"]
    /\ UNCHANGED <<bus, websocket, services, sessions, bot_session, session, owned, bg, sd, last_op>>

\* The response is there: call_api returns.
TaskResponse(t) ==
    /\ t \in DOMAIN tasks
    /\ tasks[t] = "waiting"
    /\ tasks' = [tasks EXCEPT ![t] = "running"]
    /\ UNCHANGED <<bus, websocket, services, sessions, bot_session, session, owned, bg, sd, last_op>>

\* An emit or a quick response ends; _done_callback takes the task out of
\* self._tasks.
TaskFinish(t) ==
    /\ t \in EmitTasks \cup Outsiders
    /\ t \in DOMAIN tasks
    /\ tasks[t] = "running"
    /\ tasks' = [tasks EXCEPT ![t] = "finished"]
    /\ owned' = owned \ {t}
    /\ UNCHANGED <<bus, websocket, services, sessions, bot_session, session, bg, sd, last_op>>

Failed == {t \in DOMAIN tasks : tasks[t] = "failed"}

\* A child ends with an exception: call_api of the heartbeat raises (an
\* ApiError, a closed connection), an emit raises what a handler raised.
TaskFail(t) ==
    /\ t \in Children
    /\ t \in DOMAIN tasks
    /\ tasks[t] = "running"
    /\ Cardinality(Failed) < MaxFailures
    /\ tasks' = [tasks EXCEPT ![t] = "failed"]
    /\ owned' = owned \ {t}
    /\ UNCHANGED <<bus, websocket, services, sessions, bot_session, session, bg, sd, last_op>>

\* Session.shutdown: Tasks.cancel(self.background) up to `await task`.
\* A background task that has not run yet ends cancelled without entering
\* _background.
ShutdownCall ==
    /\ sd.pc = "idle"
    /\ session.background # None
    /\ sd' = [pc |-> "awaiting",
              pending |-> {t \in DOMAIN tasks : tasks[t] = "waiting"}]
    /\ IF bg.pc = "ready"
       THEN /\ tasks' = [tasks EXCEPT !["background"] = "cancelled"]
            /\ bg' = [bg EXCEPT !.pc = "done"]
       ELSE /\ bg' = [bg EXCEPT !.pc = "cancelling"]
            /\ UNCHANGED tasks
    /\ UNCHANGED <<bus, websocket, services, sessions, bot_session, session, owned, last_op>>

\* CancelledError reaches _background in poll_event; finally:
\* await Tasks.cancel(heartbeat).  `await task` on a heartbeat that has
\* ended with an exception raises it at once, out of the finally block.
BackgroundFinally ==
    /\ bg.pc = "cancelling"
    /\ IF tasks["heartbeat"] = "failed"
       THEN /\ tasks' = [tasks EXCEPT !["background"] = "failed"]
            /\ bg' = [bg EXCEPT !.pc = "done"]
       ELSE /\ tasks' = task_cancel(tasks, "heartbeat")
            /\ bg' = [bg EXCEPT !.pc = "await_heartbeat"]
    /\ UNCHANGED <<bus, websocket, services, sessions, bot_session, session, owned, sd, last_op>>

\* The heartbeat is cancelled: await self._tasks.cancel_all() takes
\* list(self._tasks).
BackgroundCancelAll ==
    /\ bg.pc = "await_heartbeat"
    /\ bg' = [bg EXCEPT !.pc = "cancel_all", !.todo = owned]
    /\ UNCHANGED <<bus, websocket, services, sessions, bot_session, session, tasks, owned, sd, last_op>>

\* cancel_all: await self.cancel(task) for the next task of the list.  A
\* task that has meanwhile ended with an exception raises it from
\* `await task`, out of cancel_all and of the finally block.
BackgroundCancelNext(t) ==
    /\ bg.pc = "cancel_all"
    /\ t \in bg.todo
    /\ IF tasks[t] = "failed"
       THEN /\ tasks' = [tasks EXCEPT !["background"] = "failed"]
            /\ bg' = [bg EXCEPT !.pc = "done", !.todo = {}]
            /\ UNCHANGED owned
       ELSE /\ tasks' = task_cancel(tasks, t)
            /\ bg' = [bg EXCEPT !.todo = @ \ {t}]
            /\ owned' = owned \ {t}
    /\ UNCHANGED <<bus, websocket, services, sessions, bot_session, session, sd, last_op>>

\* The finally block is through: the CancelledError ends the background
\* task.
BackgroundCancelled ==
    /\ bg.pc = "cancel_all"
    /\ bg.todo = {}
    /\ tasks' = [tasks EXCEPT !["background"] = "cancelled"]
    /\ bg' = [bg EXCEPT !.pc = "done"]
    /\ UNCHANGED <<bus, websocket, services, sessions, bot_session, session, owned, sd, last_op>>

\* Tasks.cancel: `await task` ends; except asyncio.CancelledError: pass.
\* Any other exception of the background task leaves shutdown.
ShutdownEnd ==
    /\ sd.pc = "awaiting"
    /\ bg.pc = "done"
    /\ sd' = [sd EXCEPT !.pc = IF tasks["background"] = "cancelled"
                                THEN "returned" ELSE "raised"]
    /\ session' = [session EXCEPT !.closed = TRUE]
    /\ UNCHANGED <<bus, websocket, services, sessions, bot_session, tasks, owned, bg, last_op>>

NextShutdown ==
    \/ BackgroundBegin
    \/ BackgroundPoll
    \/ QuickStart
    \/ \E t \in Children \cup Outsiders : TaskCallApi(t)
    \/ \E t \in Children \cup Outsiders : TaskResponse(t)
    \/ \E t \in EmitTasks \cup Outsiders : TaskFinish(t)
    \/ \E t \in Children : TaskFail(t)
    \/ ShutdownCall
    \/ BackgroundFinally
    \/ BackgroundCancelAll
    \/ \E t \in EmitTasks : BackgroundCancelNext(t)
    \/ BackgroundCancelled
    \/ ShutdownEnd

SpecShutdown == InitStarted /\ [][NextShutdown]_vars

ShutdownOver == sd.pc \in {"returned", "raised"}

\* C16: once the shutdown of the session has returned, every call_api that
\* was waiting for its response when the shutdown began has ended with
\* CancelledError; none is still waiting or has gone on.
PendingWaitersCancelled ==
    sd.pc = "returned" => \A t \in sd.pending : tasks[t] = "cancelled"

\* C17: once the shutdown of the session is over, the background task, the
\* heartbeat task and the emit tasks have all stopped.
ShutdownStopsTasks ==
    ShutdownOver =>
        \A t \in {"background"} \cup Children : t \in DOMAIN tasks => Done(t)

-----------------------------------------------------------------------------
(* The life of a session: Adapter.login, Session.start, Session.shutdown,  *)
(* Adapter.logout, and Mirai.startup and Mirai.shutdown on top of them.    *)
(*                                                                         *)
(* One account and one Session object are followed.  Its background task   *)
(* has no children here (SpecShutdown follows those).  last_op records the *)
(* last operation: what it was called on and how it ended.                 *)

\* Bound on the number of background tasks Session.start creates.
MaxStarts == 2

\* The buses an application registers: its own and the bot's _model_bus.
Buses == {"bus", "model_bus"}

Background(n) == "background" \o ToString(n)

Backgrounds == {t \in DOMAIN tasks : \E n \in 1..MaxStarts : t = Background(n)}

\* Session.start without its check of self.buses.
session_start_unguarded(s, ts) ==
    LET new == Background(Cardinality(DOMAIN ts) + 1)
    IN  [outcome |-> "returned",
         session |-> [s EXCEPT !.background = new],
         tasks |-> create_task(ts, new)]

\* Session.start: RuntimeError without a bus, else
\* self.background = asyncio.create_task(self._background()).
session_start(s, ts) ==
    IF s.buses = {}
    THEN [outcome |-> "RuntimeError", session |-> s, tasks |-> ts]
    ELSE LET new == Background(Cardinality(DOMAIN ts) + 1)
         IN  [outcome |-> "returned",
              session |-> [s EXCEPT !.background = new],
              tasks |-> create_task(ts, new)]

\* Session.shutdown of a session without children: Tasks.cancel of the
\* background task, if there is one.  A task that is done is left as it is.
session_shutdown(s, ts) ==
    IF s.background # None THEN task_cancel(ts, s.background) ELSE ts

\* Mirai.startup is between its login and its start.
InStartup == last_op.op = "login" /\ last_op.via = "startup"

\* A logout of the account has completed before.
LoggedOut == session.exists /\ "qq" \notin sessions

InitSession == InitBus /\ NoAdapter /\ NoServices

\* session = await adapter.login(qq)
Login ==
    /\ ~session.exists
    /\ session' = [NoSession EXCEPT !.exists = TRUE]
    /\ sessions' = sessions \cup {"qq"}
    /\ last_op' = [NoOp EXCEPT !.op = "login", !.outcome = "returned", !.via = "direct"]
    /\ UNCHANGED <<bus, websocket, services, bot_session, tasks, owned, bg, sd>>

RegisterBus(b) ==
    /\ session.exists
    /\ ~InStartup
    /\ session' = [session EXCEPT !.buses = @ \cup {b}]
    /\ last_op' = [NoOp EXCEPT !.op = "register_event_bus", !.outcome = "returned",
                               !.buses = session.buses, !.closed = session.closed]
    /\ UNCHANGED <<bus, websocket, services, sessions, bot_session, tasks, owned, bg, sd>>

UnregisterBus(b) ==
    /\ session.exists
    /\ ~InStartup
    /\ session' = [session EXCEPT !.buses = @ \ {b}]
    /\ last_op' = [NoOp EXCEPT !.op = "unregister_event_bus", !.outcome = "returned",
                               !.buses = session.buses, !.closed = session.closed]
    /\ UNCHANGED <<bus, websocket, services, sessions, bot_session, tasks, owned, bg, sd>>

\* await session.start(), called by `via`.
StartVia(via) ==
    /\ session.exists
    /\ Cardinality(DOMAIN tasks) < MaxStarts
    /\ LET r == session_start(session, tasks)
       IN  /\ session' = r.session
           /\ tasks' = r.tasks
           /\ last_op' = [NoOp EXCEPT !.op = "start", !.outcome = r.outcome,
                                      !.buses = session.buses,
                                      !.created = Cardinality(DOMAIN r.tasks)
                                                  - Cardinality(DOMAIN tasks),
                                      !.via = via, !.closed = session.closed]
    /\ UNCHANGED <<bus, websocket, services, sessions, bot_session, owned, bg, sd>>

Start == ~InStartup /\ StartVia("direct")

\* _background returns by itself (WebHookSession._background returns at
\* once).
BackgroundReturn(t) ==
    /\ t \in Backgrounds
    /\ tasks[t] = "running"
    /\ ~InStartup
    /\ tasks' = [tasks EXCEPT ![t] = "finished"]
    /\ UNCHANGED <<bus, websocket, services, sessions, bot_session, session, owned, bg, sd, last_op>>

\* await session.shutdown()
SessionShutdown ==
    /\ session.exists
    /\ ~InStartup
    /\ tasks' = session_shutdown(session, tasks)
    /\ session' = [session EXCEPT !.closed = TRUE]
    /\ last_op' = [NoOp EXCEPT !.op = "shutdown", !.outcome = "returned",
                               !.buses = session.buses, !.closed = session.closed,
                               !.again = session.closed]
    /\ UNCHANGED <<bus, websocket, services, sessions, bot_session, owned, bg, sd>>

\* Adapter.logout(qq), called as `op`: session = self.sessions[qq] is a
\* KeyError for an account that is not in the map.
LogoutAs(op) ==
    /\ IF "qq" \in sessions
       THEN /\ tasks' = session_shutdown(session, tasks)
            /\ session' = [session EXCEPT !.closed = TRUE]
            /\ sessions' = sessions \ {"qq"}
            /\ last_op' = [NoOp EXCEPT !.op = op, !.outcome = "returned",
                                       !.buses = session.buses,
                                       !.closed = session.closed]
       ELSE /\ last_op' = [NoOp EXCEPT !.op = op, !.outcome = "KeyError",
                                       !.buses = session.buses,
                                       !.closed = session.closed,
                                       !.again = LoggedOut]
            /\ UNCHANGED <<sessions, session, tasks>>
    /\ UNCHANGED <<bus, websocket, services, bot_session, owned, bg, sd>>

Logout == ~InStartup /\ LogoutAs("logout")

\* Mirai.startup up to the registration of the bot's bus:
\* self._session = await self._adapter.login(self.qq), then
\* self._session.register_event_bus(self._model_bus).
BotStartup ==
    /\ ~session.exists
    /\ bot_session = None
    /\ session' = [NoSession EXCEPT !.exists = TRUE, !.buses = {"model_bus"}]
    /\ sessions' = sessions \cup {"qq"}
    /\ bot_session' = "session"
    /\ last_op' = [NoOp EXCEPT !.op = "login", !.outcome = "returned",
                               !.via = "startup"]
    /\ UNCHANGED <<bus, websocket, services, tasks, owned, bg, sd>>

\* The end of Mirai.startup: await self._session.start().
BotStart == InStartup /\ StartVia("startup")

\* Mirai.shutdown: if self._session: await self._adapter.logout(self.qq).
\* self._session is never reset.
BotShutdown ==
    /\ bot_session # None
    /\ ~InStartup
    /\ LogoutAs("bot.shutdown")

\* await session.call_api(...): the command goes to the transport.
SessionCallApi ==
    /\ session.exists
    /\ ~InStartup
    /\ last_op' = [NoOp EXCEPT !.op = "call_api", !.outcome = "sent",
                               !.buses = session.buses, !.closed = session.closed]
    /\ UNCHANGED <<bus, websocket, services, sessions, bot_session, session, tasks, owned, bg, sd>>

\* await session.emit(event): bus.emit for every bus of the session.
SessionEmit ==
    /\ session.exists
    /\ ~InStartup
    /\ last_op' = [NoOp EXCEPT !.op = "emit", !.outcome = "emitted",
                               !.buses = session.buses, !.closed = session.closed]
    /\ UNCHANGED <<bus, websocket, services, sessions, bot_session, session, tasks, owned, bg, sd>>

NextSession ==
    \/ Login
    \/ \E b \in Buses : RegisterBus(b)
    \/ \E b \in Buses : UnregisterBus(b)
    \/ Start
    \/ \E n \in 1..MaxStarts : BackgroundReturn(Background(n))
    \/ SessionShutdown
    \/ Logout
    \/ BotStartup
    \/ BotStart
    \/ BotShutdown
    \/ SessionCallApi
    \/ SessionEmit

SpecSession == InitSession /\ [][NextSession]_vars

\* C18: a shutdown of the bot, a logout of the account or a shutdown of the
\* session that comes after one that completed returns without an
\* exception.
ShutdownIdempotent ==
    (last_op.op \in {"shutdown", "logout", "bot.shutdown"} /\ last_op.again)
        => last_op.outcome = "returned"

\* C19: call_api, start and emit on a session that has been shut down fail
\* with SessionClosed.
ClosedSessionRefuses ==
    (last_op.op \in {"call_api", "start", "emit"} /\ last_op.closed)
        => last_op.outcome = "SessionClosed"

\* C20: Session.start without a registered bus fails and creates no task;
\* with a bus it returns and has created exactly one background task; the
\* start of Mirai.startup finds a bus registered.
StartNeedsBus ==
    last_op.op = "start" =>
        /\ last_op.buses = {} =>
            (last_op.outcome = "RuntimeError" /\ last_op.created = 0)
        /\ last_op.buses # {} =>
            (last_op.outcome = "returned" /\ last_op.created = 1)
        /\ last_op.via = "startup" => last_op.buses # {}

StartNeedsBusReached ==
    /\ last_op.op = "start"
    /\ last_op.buses = {}
    /\ last_op.outcome = "RuntimeError"
    /\ bot_session = "session"
    /\ Cardinality(DOMAIN tasks) = 1

-----------------------------------------------------------------------------
(* The WebHook adapter: the endpoint, handle_event and call_api            *)
(*                                                                         *)
(* Header names and values are sequences of characters, so that lower()    *)
(* and the bracketed form are computed.  The handlers of the session's     *)
(* buses are seen from outside: a handler returns, or issues one command   *)
(* with call_api.  A reply body is a set of <<key, value>> pairs.          *)

\* Bound on the number of handlers that run for one event.
MaxHandlers == 2

HookHandlers == 1..MaxHandlers

LowerChar(c) ==
    CASE c = "K" -> "k"
      [] c = "V" -> "v"
      [] c = "B" -> "b"
      [] OTHER -> c

\* str.lower()
lower(str_) == [i \in 1..Len(str_) |-> LowerChar(str_[i])]

Digits == {"0", "1", "2", "3", "4", "5", "6", "7", "8", "9"}

\* str.isdecimal()
isdecimal(str_) == Len(str_) > 0 /\ \A i \in 1..Len(str_) : str_[i] \in Digits

DigitValue(c) == CHOOSE n \in 0..9 : ToString(n) = c

RECURSIVE int(_)
int(str_) ==
    IF Len(str_) = 0 THEN 0
    ELSE 10 * int(SubSeq(str_, 1, Len(str_) - 1)) + DigitValue(str_[Len(str_)])

\* '[' + value + ']'
bracketed(value) == <<"[">> \o value \o <<"]">>

\* dict[key] of a dict kept as a sequence of <<key, value>> in insertion
\* order; "KeyError" when the key is not there.
has_key(dict, key) == \E i \in 1..Len(dict) : dict[i][1] = key

getitem(dict, key) == dict[CHOOSE i \in 1..Len(dict) : dict[i][1] = key][2]

\* starlette Headers.get(key, default): the name is compared in lower case.
headers_get(headers, key, default) ==
    IF \E i \in 1..Len(headers) : lower(headers[i][1]) = lower(key)
    THEN headers[CHOOSE i \in 1..Len(headers) :
                    /\ lower(headers[i][1]) = lower(key)
                    /\ \A j \in 1..(i - 1) : lower(headers[j][1]) # lower(key)][2]
    ELSE default

BotHeader == <<"b", "o", "t">>

\* The check of the bot header: qq = request.headers.get('bot', 'Unknown');
\* a decimal qq becomes an int; qq not in self.sessions.
qq_in_sessions(headers, accounts) ==
    LET qq == headers_get(headers, BotHeader, <<"U", "n", "k", "n", "o", "w", "n">>)
    IN  isdecimal(qq) /\ int(qq) \in accounts

\* The loop over self.extra_headers from its n-th key on: "ok", 401, or the
\* KeyError of self.extra_headers[key] for a lowered key that is no key.
RECURSIVE verify_headers(_, _, _)
verify_headers(expected, headers, n) ==
    IF n > Len(expected) THEN "ok"
    ELSE LET key == lower(expected[n][1])
             request_value == lower(headers_get(headers, key, <<>>))
         IN  IF ~has_key(expected, key) THEN "KeyError"
             ELSE LET expect_value == lower(getitem(expected, key))
                  IN  IF /\ request_value # expect_value
                         /\ request_value # bracketed(expect_value)
                      THEN "401"
                      ELSE verify_headers(expected, headers, n + 1)

\* What the endpoint does with a request before it reads the event.
endpoint_auth(expected, headers, accounts) ==
    IF ~qq_in_sessions(headers, accounts) THEN "404"
    ELSE verify_headers(expected, headers, 1)

HeaderNames == {<<"k">>, <<"K">>}

ExpectValues == {<<"v">>, <<"V">>}

RequestValues ==
    {<<"v">>, <<"V">>, <<"w">>, bracketed(<<"V">>), bracketed(bracketed(<<"v">>))}

\* A header, or an item of a dict: <<key, value>>.
Item(key, value) == <<key, value>>

\* The extra_headers an application may configure: up to two headers.
ExtraHeaderMaps ==
    {<<>>}
    \cup {<<Item(n, v)>> : n \in HeaderNames, v \in ExpectValues}
    \cup {<<Item(p[1], v), Item(p[2], w)>> :
              p \in {q \in HeaderNames \X HeaderNames : q[1] # q[2]},
              v \in ExpectValues, w \in ExpectValues}

Accounts == {12}

BotValues == {<<"1", "2">>, <<"1">>, <<"x">>}

\* The headers of an inbound request: a bot header or none, an extra header
\* or none.
RequestHeaders ==
    LET bots == {<<>>} \cup {<<Item(BotHeader, b)>> : b \in BotValues}
        extras == {<<>>} \cup {<<Item(n, v)>> : n \in HeaderNames, v \in RequestValues}
    IN  {b \o e : b \in bots, e \in extras}

Methods == {"GET", "POST", "RESTGET", "RESTPOST", "MULTIPART"}

\* API names, split at '/'.
Apis == {<<"about">>, <<"file", "list">>}

\* api.replace('/', '_')
RECURSIVE replace_slash(_)
replace_slash(api) ==
    IF Len(api) = 1 THEN api[1] ELSE api[1] \o "_" \o replace_slash(Tail(api))

\* The content of a quick response, without the subCommand of the RESTful
\* methods.
quick_content_plain(api, method) ==
    {<<"command", replace_slash(api)>>, <<"content", "params">>}

\* The content of a quick response.
quick_content(api, method) ==
    {<<"command", replace_slash(api)>>, <<"content", "params">>}
    \cup (IF method = "RESTGET" THEN {<<"subCommand", "get">>}
          ELSE IF method = "RESTPOST" THEN {<<"subCommand", "update">>}
          ELSE {})

\* WebHookSession.call_api
call_api(enable, api, method) ==
    IF enable
    THEN IF method = "MULTIPART"
         THEN [outcome |-> "NotImplementedError", data |-> {}]
         ELSE [outcome |-> "QuickResponse", data |-> quick_content(api, method)]
    ELSE [outcome |-> "None", data |-> {}]

not_webhook == <<bus, websocket, lifecycle, compose, http, use, models, objects>>

InitWebHook ==
    /\ InitBus
    /\ NoAdapter
    /\ NoCompose
    /\ NoHttp
    /\ NoUse
    /\ NoModels
    /\ NoObjects
    /\ extra_headers \in ExtraHeaderMaps
    /\ enable_quick_response \in BOOLEAN
    /\ hook_sessions = {}
    /\ request = NoRequest
    /\ hook = IdleHook
    /\ reply = NoReply
    /\ outside = NoOutside

\* WebHookAdapter._login and Adapter.login: self.sessions[qq] = session.
HookLogin(qq) ==
    /\ qq \notin hook_sessions
    /\ hook.pc = "idle"
    /\ hook_sessions' = hook_sessions \cup {qq}
    /\ request' = NoRequest
    /\ reply' = NoReply
    /\ UNCHANGED <<not_webhook, extra_headers, enable_quick_response, hook, outside>>

\* The endpoint up to `await request.json()`: 404, 401, an unhandled
\* KeyError (answered 500 by the server), or handle_event begins: one
\* self.emit(event), which starts the handlers.
Endpoint(headers) ==
    /\ hook.pc = "idle"
    /\ request' = [headers |-> headers]
    /\ outside' = NoOutside
    /\ LET auth == endpoint_auth(extra_headers, headers, hook_sessions)
       IN  CASE auth = "404" ->
                    /\ reply' = [NoReply EXCEPT !.status = 404]
                    /\ hook' = IdleHook
             [] auth = "401" ->
                    /\ reply' = [NoReply EXCEPT !.status = 401,
                                    !.body = {<<"error", "Unauthorized">>}]
                    /\ hook' = IdleHook
             [] auth = "KeyError" ->
                    /\ reply' = [NoReply EXCEPT !.status = 500, !.error = "KeyError"]
                    /\ hook' = IdleHook
             [] OTHER ->
                    /\ reply' = NoReply
                    /\ hook' = [IdleHook EXCEPT !.pc = "handling",
                                                !.running = HookHandlers,
                                                !.emitted = 1]
    /\ UNCHANGED <<not_webhook, extra_headers, enable_quick_response, hook_sessions>>

InHandleEvent == hook.pc \in {"handling", "caught"}

\* A handler ends without a command.
HandlerReturn(h) ==
    /\ InHandleEvent
    /\ h \in hook.running
    /\ hook' = [hook EXCEPT !.running = @ \ {h}]
    /\ UNCHANGED <<not_webhook, extra_headers, enable_quick_response, hook_sessions,
                   request, reply, outside>>

\* A handler awaits call_api.  QuickResponse is a BaseException: it passes
\* async_with_exception and gather and reaches handle_event, which keeps
\* the first one; NotImplementedError is reported by async_with_exception.
HandlerCallApi(h, api, method) ==
    /\ InHandleEvent
    /\ h \in hook.running
    /\ LET r == call_api(enable_quick_response, api, method)
       IN  hook' = [hook EXCEPT
                       !.running = @ \ {h},
                       !.issued = @ \cup {h},
                       !.raised = IF r.outcome = "QuickResponse"
                                  THEN Append(@, [by |-> h, api |-> api,
                                                  method |-> method,
                                                  data |-> r.data])
                                  ELSE @,
                       !.pc = IF r.outcome = "QuickResponse" THEN "caught" ELSE @]
    /\ UNCHANGED <<not_webhook, extra_headers, enable_quick_response, hook_sessions,
                   request, reply, outside>>

\* handle_event returns response.data of the QuickResponse it caught, or {}
\* when emit and the quick-response tasks are through; the endpoint
\* answers with it.
HookReply ==
    /\ \/ hook.pc = "caught"
       \/ hook.pc = "handling" /\ hook.running = {}
    /\ reply' = [NoReply EXCEPT !.status = 200,
                                !.body = IF hook.raised # <<>>
                                         THEN hook.raised[1].data ELSE {},
                                !.emitted = hook.emitted]
    /\ hook' = IdleHook
    /\ UNCHANGED <<not_webhook, extra_headers, enable_quick_response, hook_sessions,
                   request, outside>>

\* call_api on the session while no request is being handled.
OutsideCallApi(api, method) ==
    /\ hook.pc = "idle"
    /\ hook_sessions # {}
    /\ outside' = [method |-> method,
                   outcome |-> call_api(enable_quick_response, api, method).outcome]
    /\ request' = NoRequest
    /\ reply' = NoReply
    /\ UNCHANGED <<not_webhook, extra_headers, enable_quick_response, hook_sessions,
                   hook>>

NextWebHook ==
    \/ \E qq \in Accounts : HookLogin(qq)
    \/ \E headers \in RequestHeaders : Endpoint(headers)
    \/ \E h \in HookHandlers : HandlerReturn(h)
    \/ \E h \in HookHandlers, api \in Apis, method \in Methods : HandlerCallApi(h, api, method)
    \/ HookReply
    \/ \E api \in Apis, method \in Methods : OutsideCallApi(api, method)

SpecWebHook == InitWebHook /\ [][NextWebHook]_vars

\* The decimal numeral of a natural number.
RECURSIVE Decimal(_)
Decimal(n) ==
    IF n < 10 THEN <<ToString(n)>>
    ELSE Decimal(n \div 10) \o <<ToString(n % 10)>>

Replied == reply # NoReply

\* The bot header of the request names an account that is logged in.
BotKnown ==
    \E i \in DOMAIN request.headers, a \in hook_sessions :
        /\ lower(request.headers[i][1]) = BotHeader
        /\ request.headers[i][2] = Decimal(a)

\* Every configured extra header is in the request, under its name and with
\* its value or the bracketed value, whatever the letter case.
ExtraMatches ==
    \A i \in DOMAIN extra_headers :
        \E j \in DOMAIN request.headers :
            /\ lower(request.headers[j][1]) = lower(extra_headers[i][1])
            /\ lower(request.headers[j][2])
                   \in {lower(extra_headers[i][2]), bracketed(lower(extra_headers[i][2]))}

\* C21: a request whose bot header names no logged-in account is answered
\* 404 and nothing is emitted; with a known bot and a mismatching extra
\* header it is answered 401 and nothing is emitted; with everything
\* matching it is answered 200 and the event was emitted once.
WebHookAuth ==
    Replied =>
        /\ ~BotKnown => (reply.status = 404 /\ reply.emitted = 0)
        /\ (BotKnown /\ ~ExtraMatches) => (reply.status = 401 /\ reply.emitted = 0)
        /\ (BotKnown /\ ExtraMatches) => (reply.status = 200 /\ reply.emitted = 1)

\* C22: for every configured extra_headers and every letter case, a request
\* of a known bot is accepted when its headers match and answered 401 when
\* they do not; no request ends in an unhandled error.
HeaderCheckCaseInsensitive ==
    Replied =>
        /\ reply.error = "none"
        /\ BotKnown => (reply.status = IF ExtraMatches THEN 200 ELSE 401)

\* handle_event returns and the endpoint answers.
Replies == InHandleEvent /\ hook'.pc = "idle"

\* The object {command, content[, subCommand]} of a command.
IsCommandOf(body, api, method) ==
    /\ \A kv \in body : kv[1] \in {"command", "content", "subCommand"}
    /\ <<"command", replace_slash(api)>> \in body
    /\ <<"content", "params">> \in body
    /\ <<"subCommand", "get">> \in body <=> method = "RESTGET"
    /\ <<"subCommand", "update">> \in body <=> method = "RESTPOST"
    /\ Cardinality(body) = IF method \in {"RESTGET", "RESTPOST"} THEN 3 ELSE 2

LastQuickResponseWins ==
    [][(Replies /\ Len(hook.raised) >= 2) =>
        reply'.body = hook.raised[Len(hook.raised)].data]_vars

\* C25: a command issued on the session while no request is being handled
\* fails with NotAvailable.
OutsideNotAvailable ==
    outside # NoOutside => outside.outcome = "NotAvailable"

-----------------------------------------------------------------------------
(* The composite adapter: ComposeAdapter and ComposeSession                *)
(*                                                                         *)
(* login and logout are those of Adapter; _login logs the account in on    *)
(* the two inner adapters.  The background task of a ComposeSession runs   *)
(* the _background of the session of the event channel.                    *)

not_compose == <<bus, websocket, lifecycle, webhook, http, use, models, objects>>

InitCompose == InitBus /\ NoAdapter /\ NoWebHook /\ NoCompose /\ NoHttp /\ NoUse /\ NoModels /\ NoObjects

ComposeOp(op, qq, outcome) ==
    [NoComposeOp EXCEPT !.op = op, !.qq = qq, !.outcome = outcome]

\* ComposeAdapter._login, first line: api = await self.api_channel.login(qq).
ComposeLoginApi(qq) ==
    /\ compose_session[qq].pc = "out"
    /\ qq \notin compose_sessions
    /\ api_channel' = api_channel \cup {qq}
    /\ compose_session' = [compose_session EXCEPT ![qq].pc = "api"]
    /\ UNCHANGED <<not_compose, event_channel, compose_sessions, compose_op>>

\* ev = await self.event_channel.login(qq); return ComposeSession(api, ev);
\* Adapter.login: self.sessions[qq] = session.
ComposeLoginEvent(qq) ==
    /\ compose_session[qq].pc = "api"
    /\ event_channel' = event_channel \cup {qq}
    /\ compose_sessions' = compose_sessions \cup {qq}
    /\ compose_session' = [compose_session EXCEPT ![qq] =
                               [NoComposeSession EXCEPT !.pc = "in"]]
    /\ compose_op' = ComposeOp("login", qq, "returned")
    /\ UNCHANGED <<not_compose, api_channel>>

\* The login on the event channel raises: login ends with that exception.
ComposeLoginEventFails(qq) ==
    /\ compose_session[qq].pc = "api"
    /\ compose_session' = [compose_session EXCEPT ![qq].pc = "out"]
    /\ compose_op' = ComposeOp("login", qq, "raised")
    /\ UNCHANGED <<not_compose, api_channel, event_channel, compose_sessions>>

\* session.register_event_bus(bus): self.buses is event_channel.buses.
ComposeRegisterBus(qq) ==
    /\ compose_session[qq].pc = "in"
    /\ compose_session[qq].buses = {}
    /\ compose_session' = [compose_session EXCEPT ![qq].buses = {"bus"}]
    /\ UNCHANGED <<not_compose, api_channel, event_channel, compose_sessions, compose_op>>

\* Session.start of the ComposeSession: its background task awaits
\* self.event_channel._background().
ComposeStart(qq) ==
    /\ compose_session[qq].pc = "in"
    /\ compose_session[qq].background = "none"
    /\ IF compose_session[qq].buses = {}
       THEN /\ compose_op' = ComposeOp("start", qq, "RuntimeError")
            /\ UNCHANGED compose_session
       ELSE /\ compose_op' = ComposeOp("start", qq, "returned")
            /\ compose_session' = [compose_session EXCEPT ![qq].background = "running"]
    /\ UNCHANGED <<not_compose, api_channel, event_channel, compose_sessions>>

\* ComposeSession.call_api: await self.api_channel.call_api(...).
ComposeCallApi(qq) ==
    /\ compose_session[qq].pc = "in"
    /\ compose_op' = [ComposeOp("call_api", qq, "returned") EXCEPT !.via = "api_channel"]
    /\ UNCHANGED <<not_compose, api_channel, event_channel, compose_sessions,
                   compose_session>>

\* Adapter.logout on the composite adapter: session = self.sessions[qq],
\* await session.shutdown(), self.sessions.pop(qq).  Session.shutdown
\* cancels the background task of the ComposeSession.
ComposeLogout(qq) ==
    /\ compose_session[qq].pc # "api"
    /\ IF qq \in compose_sessions
       THEN /\ compose_sessions' = compose_sessions \ {qq}
            /\ compose_session' = [compose_session EXCEPT
                   ![qq].pc = "out",
                   ![qq].background = IF @ = "running" THEN "cancelled" ELSE @]
            /\ compose_op' = ComposeOp("logout", qq, "returned")
       ELSE /\ compose_op' = ComposeOp("logout", qq, "KeyError")
            /\ UNCHANGED <<compose_sessions, compose_session>>
    /\ UNCHANGED <<not_compose, api_channel, event_channel>>

NextCompose ==
    \/ \E qq \in ComposeAccounts : ComposeLoginApi(qq)
    \/ \E qq \in ComposeAccounts : ComposeLoginEvent(qq)
    \/ \E qq \in ComposeAccounts : ComposeLoginEventFails(qq)
    \/ \E qq \in ComposeAccounts : ComposeRegisterBus(qq)
    \/ \E qq \in ComposeAccounts : ComposeStart(qq)
    \/ \E qq \in ComposeAccounts : ComposeCallApi(qq)
    \/ \E qq \in ComposeAccounts : ComposeLogout(qq)

SpecCompose == InitCompose /\ [][NextCompose]_vars

\* C26: after login(qq) on the composite adapter has returned, both inner
\* adapters hold a session for qq; after logout(qq) has returned, neither
\* of them does and the background task of the session is not running.
ComposeLogsBoth ==
    /\ (compose_op.op = "login" /\ compose_op.outcome = "returned") =>
           /\ compose_op.qq \in api_channel
           /\ compose_op.qq \in event_channel
    /\ (compose_op.op = "logout" /\ compose_op.outcome = "returned") =>
           /\ compose_op.qq \notin api_channel
           /\ compose_op.qq \notin event_channel
           /\ compose_session[compose_op.qq].background # "running"

-----------------------------------------------------------------------------
(* HTTPAdapter.login                                                       *)
(*                                                                         *)
(* The adapter has no session token before its first login, unless it was  *)
(* made with HTTPAdapter.via from one that has.  http_login keeps, for the *)
(* login that runs or ran last, the requests it sent and the installation  *)
(* of the header, in order, and where the token in self.session came from. *)

\* Bound on the number of logins of one adapter.
MaxLogins == 2

not_http == <<bus, websocket, lifecycle, webhook, compose, use, models, objects>>

\* The tokens the gateway may answer /verify with.
GatewayTokens == {"t1", "t2"}

\* str(random.randint(1, 2**20))
LocalTokens == {str(1), str(2^20)}

HttpAccounts == {1, 2}

InitHttp ==
    /\ InitBus
    /\ NoAdapter
    /\ NoWebHook
    /\ NoCompose
    /\ NoUse
    /\ NoModels
    /\ NoObjects
    /\ \E key \in {None, "key"}, single \in BOOLEAN, session_ \in {None, "t0"} :
           /\ http_adapter = [NoHttpAdapter EXCEPT !.verify_key = key,
                                                   !.single_mode = single,
                                                   !.session = session_]
           /\ http_login = [NoHttpLogin EXCEPT
                               !.token = IF session_ = None THEN "none" ELSE "via"]

\* login from `if not self.single_mode` on, with the token in place: the
\* /bind request is sent, or, in single mode, the header is installed and
\* login returns.
after_session(adapter, login, qq) ==
    IF ~adapter.single_mode
    THEN [adapter |-> adapter,
          login |-> [login EXCEPT !.pc = "bind", !.log = Append(@, "bind")]]
    ELSE [adapter |-> [adapter EXCEPT !.headers = adapter.session, !.qq = qq],
          login |-> [login EXCEPT !.pc = "idle", !.log = Append(@, "header"),
                                  !.outcome = "returned"]]

\* login up to its first request: /verify when there is no token and a
\* verify key, a local token when there is no token and no verify key.
HttpLogin(qq) ==
    /\ http_login.pc = "idle"
    /\ http_login.logins < MaxLogins
    /\ LET begun == [http_login EXCEPT !.log = <<>>, !.logins = @ + 1,
                                       !.outcome = "none"]
       IN  IF http_adapter.session = None
           THEN IF http_adapter.verify_key # None
                THEN /\ http_login' = [begun EXCEPT !.pc = "verify",
                                                    !.log = Append(@, "verify")]
                     /\ UNCHANGED http_adapter
                ELSE \E id \in LocalTokens :
                        LET r == after_session(
                                     [http_adapter EXCEPT !.session = id],
                                     [begun EXCEPT !.token = "local"], qq)
                        IN  http_adapter' = r.adapter /\ http_login' = r.login
           ELSE LET r == after_session(http_adapter, begun, qq)
                IN  http_adapter' = r.adapter /\ http_login' = r.login
    /\ UNCHANGED not_http

\* The answer to /verify: a token, an error code (ApiError), or none in
\* time (_post returns None and None['session'] is a TypeError).
VerifyResponse(qq, result) ==
    /\ http_login.pc = "verify"
    /\ IF result \in GatewayTokens
       THEN LET r == after_session(
                         [http_adapter EXCEPT !.session = result],
                         [http_login EXCEPT !.token = "gateway"], qq)
            IN  http_adapter' = r.adapter /\ http_login' = r.login
       ELSE /\ http_login' = [http_login EXCEPT !.pc = "idle", !.outcome = result]
            /\ UNCHANGED http_adapter
    /\ UNCHANGED not_http

\* The answer to /bind: an error code ends login with ApiError; otherwise
\* (also when _post returned None after a timeout) the header is installed.
BindResponse(qq, result) ==
    /\ http_login.pc = "bind"
    /\ IF result = "ApiError"
       THEN /\ http_login' = [http_login EXCEPT !.pc = "idle", !.outcome = result]
            /\ UNCHANGED http_adapter
       ELSE /\ http_adapter' = [http_adapter EXCEPT !.headers = http_adapter.session,
                                                    !.qq = qq]
            /\ http_login' = [http_login EXCEPT !.pc = "idle",
                                                !.log = Append(@, "header"),
                                                !.outcome = "returned"]
    /\ UNCHANGED not_http

NextHttp ==
    \/ \E qq \in HttpAccounts : HttpLogin(qq)
    \/ \E qq \in HttpAccounts, result \in GatewayTokens \cup {"ApiError", "TypeError"} :
           VerifyResponse(qq, result)
    \/ \E qq \in HttpAccounts, result \in {"ok", "None", "ApiError"} :
           BindResponse(qq, result)

SpecHttp == InitHttp /\ [][NextHttp]_vars

\* The position of a step in the log of a login, 0 when it is not there.
StepAt(step) ==
    IF \E i \in DOMAIN http_login.log : http_login.log[i] = step
    THEN CHOOSE i \in DOMAIN http_login.log : http_login.log[i] = step
    ELSE 0

\* C27: a login that has returned has sent /verify before /bind and has
\* installed the header after both; in single mode it has sent no /bind and
\* the token of the adapter was not obtained from the gateway, with or
\* without a verify key.
HttpLoginSteps ==
    http_login.outcome = "returned" =>
        /\ StepAt("header") = Len(http_login.log)
        /\ (StepAt("verify") > 0 /\ StepAt("bind") > 0) => StepAt("verify") < StepAt("bind")
        /\ http_adapter.single_mode =>
               (StepAt("bind") = 0 /\ http_login.token # "gateway")

-----------------------------------------------------------------------------
(* Mirai.use_adapter                                                       *)
(*                                                                         *)
(* use_adapter is an asynccontextmanager: what stands before its yield     *)
(* runs when the block is entered, what stands after it when the body ends *)
(* normally.  An exception of the body is thrown into the generator at the *)
(* yield, which has no try around it.                                      *)

\* Bound on the depth of nested use_adapter blocks.
MaxDepth == 2

not_use == <<bus, websocket, lifecycle, webhook, compose, http, models, objects>>

InitUse == InitBus /\ NoAdapter /\ NoWebHook /\ NoCompose /\ NoHttp /\ NoUse /\ NoModels /\ NoObjects

InBlocks == {blocks[i].adapter : i \in DOMAIN blocks}

Innermost == blocks[Len(blocks)]

\* Mirai.startup: self._session = await self._adapter.login(self.qq).
UseStartup ==
    /\ bot_current = None
    /\ blocks = <<>>
    /\ bot_current' = "main"
    /\ use_op' = [NoUseOp EXCEPT !.op = "startup", !.how = "returned"]
    /\ UNCHANGED <<not_use, alt_sessions, blocks>>

\* async with bot.use_adapter(adapter): origin_session = self._session;
\* self._session = await adapter.login(self.qq); yield.
UseEnter(adapter) ==
    /\ adapter \notin InBlocks
    /\ Len(blocks) < MaxDepth
    /\ alt_sessions' = alt_sessions \cup {adapter}
    /\ bot_current' = adapter
    /\ blocks' = Append(blocks, [adapter |-> adapter, origin |-> bot_current])
    /\ use_op' = [NoUseOp EXCEPT !.op = "enter", !.how = "returned",
                                 !.adapter = adapter, !.before = bot_current]
    /\ UNCHANGED not_use

\* adapter.login raises: the block is not entered.
UseEnterFails(adapter) ==
    /\ adapter \notin InBlocks
    /\ Len(blocks) < MaxDepth
    /\ use_op' = [NoUseOp EXCEPT !.op = "enter", !.how = "raised",
                                 !.adapter = adapter, !.before = bot_current]
    /\ UNCHANGED <<not_use, bot_current, alt_sessions, blocks>>

\* A command of the bot: api.call(self.session, ...); Mirai.session raises
\* RuntimeError when self._session is None.
UseCallApi ==
    /\ use_op' = [NoUseOp EXCEPT
                     !.op = "call_api",
                     !.how = IF bot_current = None THEN "RuntimeError" ELSE "returned",
                     !.adapter = IF blocks = <<>> THEN None ELSE Innermost.adapter,
                     !.target = bot_current]
    /\ UNCHANGED <<not_use, bot_current, alt_sessions, blocks>>

\* The body of the innermost block ends normally:
\* await adapter.logout(self.qq); self._session = origin_session.
UseLeave ==
    /\ blocks # <<>>
    /\ alt_sessions' = alt_sessions \ {Innermost.adapter}
    /\ bot_current' = Innermost.origin
    /\ blocks' = SubSeq(blocks, 1, Len(blocks) - 1)
    /\ use_op' = [NoUseOp EXCEPT !.op = "leave", !.how = "returned",
                                 !.adapter = Innermost.adapter,
                                 !.before = Innermost.origin]
    /\ UNCHANGED not_use

\* The body of the innermost block raises: the exception leaves the
\* generator at its yield and the lines after the yield do not run.
UseLeaveRaised ==
    /\ blocks # <<>>
    /\ blocks' = SubSeq(blocks, 1, Len(blocks) - 1)
    /\ use_op' = [NoUseOp EXCEPT !.op = "leave", !.how = "raised",
                                 !.adapter = Innermost.adapter,
                                 !.before = Innermost.origin]
    /\ UNCHANGED <<not_use, bot_current, alt_sessions>>

NextUse ==
    \/ UseStartup
    \/ \E adapter \in Alternates : UseEnter(adapter)
    \/ \E adapter \in Alternates : UseEnterFails(adapter)
    \/ UseCallApi
    \/ UseLeave
    \/ UseLeaveRaised

SpecUse == InitUse /\ [][NextUse]_vars

\* C28: when a use_adapter block has been left, normally or by an
\* exception of its body, the bot's session is the one it had before the
\* block and the alternate adapter holds no session any more; a command
\* inside a block goes to the session of the block's adapter.
UseAdapterScoped ==
    /\ use_op.op = "leave" =>
           /\ bot_current = use_op.before
           /\ use_op.adapter \notin alt_sessions
    /\ (use_op.op = "call_api" /\ use_op.adapter # None) =>
           use_op.target = use_op.adapter

-----------------------------------------------------------------------------
(* Answering request events: Mirai.allow / decline / ignore                *)

\* class RespOperate(Flag): the values of its members.
ALLOW == 1

DECLINE == 2

IGNORE == 3

BAN == 4

\* The width of a RespOperate value in bits.
FlagBits == 3

\* Bit i of a flag value.
Bit(v, i) == (v \div (2 ^ i)) % 2

RECURSIVE flag_bits(_, _, _, _)
\* The value whose bit i is Op[bit i of a, bit i of b], for the bits below n.
flag_bits(Op, a, b, n) ==
    IF n = 0 THEN 0
    ELSE flag_bits(Op, a, b, n - 1) + Op[Bit(a, n - 1), Bit(b, n - 1)] * 2 ^ (n - 1)

\* Flag.__or__: the members of either operand.
flag_or(a, b) ==
    flag_bits([x \in 0..1, y \in 0..1 |-> IF x + y > 0 THEN 1 ELSE 0], a, b, FlagBits)

\* Flag.__and__: the members of both operands.
flag_and(a, b) ==
    flag_bits([x \in 0..1, y \in 0..1 |-> x * y], a, b, FlagBits)

\* The request events, by their type name.
RequestEvents ==
    {"NewFriendRequestEvent", "MemberJoinRequestEvent", "BotInvitedJoinGroupRequestEvent"}

EventIds == {1, 2}

Messages == {"", "no"}

\* Info.name of the model that ApiModel.get_subtype('Resp' + event.type) gives.
resp_name(type) ==
    CASE type = "NewFriendRequestEvent" -> "resp/newFriendRequestEvent"
      [] type = "MemberJoinRequestEvent" -> "resp/memberJoinRequestEvent"
      [] type = "BotInvitedJoinGroupRequestEvent" -> "resp/botInvitedJoinGroupRequestEvent"

\* What a validator of `operate` gives for a RespOperate value.
Valid(code) == [raised |-> "none", operate |-> code]

Invalid == [raised |-> "ValueError", operate |-> -1]

\* RespNewFriendRequestEvent._validate_operate
validate_new_friend(v) ==
    IF v = ALLOW THEN Valid(0)
    ELSE IF v = DECLINE THEN Valid(1)
    ELSE IF v = flag_and(DECLINE, BAN) THEN Valid(2)
    ELSE Invalid

\* RespMemberJoinRequestEvent._validate_operate
validate_member_join(v) ==
    IF v = ALLOW THEN Valid(0)
    ELSE IF v = DECLINE THEN Valid(1)
    ELSE IF v = IGNORE THEN Valid(2)
    ELSE IF v = flag_and(DECLINE, BAN) THEN Valid(3)
    ELSE IF v = flag_and(IGNORE, BAN) THEN Valid(4)
    ELSE Invalid

\* RespBotInvitedJoinGroupRequestEvent._validate_operate
validate_bot_invited(v) ==
    IF v = ALLOW THEN Valid(0)
    ELSE IF v = DECLINE THEN Valid(1)
    ELSE Invalid

\* The validator of the response model of a request event.
validate_operate(type, v) ==
    CASE type = "NewFriendRequestEvent" -> validate_new_friend(v)
      [] type = "MemberJoinRequestEvent" -> validate_member_join(v)
      [] type = "BotInvitedJoinGroupRequestEvent" -> validate_bot_invited(v)

\* The operate that Mirai.allow hands to process_request.
allow_operate == ALLOW

\* The operate that Mirai.decline hands to process_request:
\* RespOperate.DECLINE | RespOperate.BAN if ban else RespOperate.DECLINE
decline_operate(ban) ==
    IF ban THEN flag_or(DECLINE, BAN) ELSE DECLINE

\* The operate that Mirai.ignore hands to process_request:
\* RespOperate.IGNORE | RespOperate.BAN if ban else RespOperate.DECLINE
ignore_operate(ban) ==
    IF ban THEN flag_or(IGNORE, BAN) ELSE DECLINE

not_approval == <<bus, websocket, lifecycle, webhook, compose, http, use, api_model, objects>>

InitApproval ==
    /\ InitBus
    /\ NoAdapter
    /\ NoWebHook
    /\ NoCompose
    /\ NoHttp
    /\ NoUse
    /\ NoModels
    /\ NoObjects

\* No answer is on its way to the gateway.
ApprovalIdle == approval.pc \in {"none", "returned", "raised"}

\* Mirai.process_request up to its await of the session: from_event builds
\* the response model, whose validator maps the operate or raises, and
\* api.call hands the fields of the model to call_api with ApiMethod.POST.
process_request(verb, ban, type, event_id, operate, message) ==
    LET checked == validate_operate(type, operate) IN
    [pc |-> IF checked.raised = "none" THEN "call_api" ELSE "raised",
     verb |-> verb,
     ban |-> ban,
     type |-> type,
     operate |-> operate,
     raised |-> checked.raised,
     api |-> IF checked.raised = "none" THEN resp_name(type) ELSE None,
     method |-> IF checked.raised = "none" THEN "POST" ELSE None,
     event_id |-> event_id,
     code |-> checked.operate,
     message |-> message]

\* Mirai.allow(event, message)
Allow(type, event_id, message) ==
    /\ ApprovalIdle
    /\ approval' = process_request("allow", FALSE, type, event_id, allow_operate, message)
    /\ UNCHANGED not_approval

\* Mirai.decline(event, message, ban)
Decline(type, event_id, message, ban) ==
    /\ ApprovalIdle
    /\ approval' = process_request("decline", ban, type, event_id,
                                   decline_operate(ban), message)
    /\ UNCHANGED not_approval

\* Mirai.ignore(event, message, ban)
Ignore(type, event_id, message, ban) ==
    /\ ApprovalIdle
    /\ approval' = process_request("ignore", ban, type, event_id,
                                   ignore_operate(ban), message)
    /\ UNCHANGED not_approval

\* The values of RespOperate that a caller of process_request can form
\* with | and & from its members.
Operates == 0 .. (2 ^ FlagBits - 1)

\* Mirai.process_request(event, operate, message), called with a
\* RespOperate of the caller's own.
ProcessRequest(type, event_id, message, operate) ==
    /\ ApprovalIdle
    /\ approval' = process_request("process_request", FALSE, type, event_id,
                                   operate, message)
    /\ UNCHANGED not_approval

\* The gateway answers the command and process_request returns.
ApprovalReturn ==
    /\ approval.pc = "call_api"
    /\ approval' = [approval EXCEPT !.pc = "returned"]
    /\ UNCHANGED not_approval

NextApproval ==
    \/ \E type \in RequestEvents, id \in EventIds, message \in Messages :
           Allow(type, id, message)
    \/ \E type \in RequestEvents, id \in EventIds, message \in Messages, ban \in BOOLEAN :
           Decline(type, id, message, ban)
    \/ \E type \in RequestEvents, id \in EventIds, message \in Messages, ban \in BOOLEAN :
           Ignore(type, id, message, ban)
    \/ \E type \in RequestEvents, id \in EventIds, message \in Messages, v \in Operates :
           ProcessRequest(type, id, message, v)
    \/ ApprovalReturn

SpecApproval == InitApproval /\ [][NextApproval]_vars

Verbs == {"allow", "decline", "ignore"}

\* The member of RespOperate that a verb stands for.
VerbOperate(verb) ==
    CASE verb = "allow" -> ALLOW
      [] verb = "decline" -> DECLINE
      [] verb = "ignore" -> IGNORE

\* The codes of mirai-api-http for a verb together with a ban, where the
\* gateway has one for the kind of request.
BanCodes ==
    [type \in RequestEvents |->
        CASE type = "NewFriendRequestEvent" -> [v \in {"decline"} |-> 2]
          [] type = "MemberJoinRequestEvent" ->
                 [v \in {"decline", "ignore"} |-> IF v = "decline" THEN 3 ELSE 4]
          [] type = "BotInvitedJoinGroupRequestEvent" -> [v \in {} |-> 0]]

\* C29: the operate that a verb hands on is the verb's own member of
\* RespOperate, OR'd with BAN when ban is true, and with ban the response
\* model accepts it and sends the gateway's code for the verb with a ban.
VerbCarriesOperate ==
    (approval.pc # "none" /\ approval.verb \in Verbs) =>
        /\ approval.operate =
               IF approval.ban THEN flag_or(VerbOperate(approval.verb), BAN)
               ELSE VerbOperate(approval.verb)
        /\ (approval.ban /\ approval.verb \in DOMAIN BanCodes[approval.type]) =>
               /\ approval.raised = "none"
               /\ approval.code = BanCodes[approval.type][approval.verb]

-----------------------------------------------------------------------------
(* ApiModel.__init__ and ApiModel.call: positional and named arguments     *)

\* The most positional arguments that a call is followed with.
MaxArgs == 4

\* A name is the sequence of the words that "_" separates in it.  The
\* fields of SendFriendMessage, in the order of their declaration:
target == <<"target">>

message_chain == <<"message", "chain">>

quote == <<"quote">>

\* A keyword that is no field of the model.
surplus == <<"surplus">>

\* x.title() of a word of a name.
title(word) ==
    CASE word = "chain" -> "Chain"
      [] word = "message" -> "Message"
      [] word = "quote" -> "Quote"
      [] word = "surplus" -> "Surplus"
      [] word = "target" -> "Target"

\* to_camel: ''.join(name_parts[:1] + [x.title() for x in name_parts[1:]])
to_camel(name) ==
    [i \in 1..Len(name) |-> IF i = 1 THEN name[i] ELSE title(name[i])]

\* info.parameter_names = list(new_cls.__fields__)
parameter_names == <<target, message_chain, quote>>

\* The fields that have no default.
RequiredFields == {target, message_chain}

Fields == {parameter_names[i] : i \in 1..Len(parameter_names)}

\* Config.alias_generator = to_camel
alias(field) == to_camel(field)

\* The values that arguments have.
ArgValues == {"a", "b"}

\* The keywords that a call is followed with.
Keywords == Fields \cup {alias(message_chain), surplus}

\* No keyword: what a field that is not given is looked up as.
NoKeyword == <<>>

\* The outcome of ApiModel.__init__.
Raised(error) == [raised |-> error, kwargs |-> <<>>]

Bound(kwargs) == [raised |-> "none", kwargs |-> kwargs]

RECURSIVE bind_reversed(_, _, _, _)
\* A binding that gives the positional arguments to the fields last first.
bind_reversed(names, args, kwargs, i) ==
    IF i > Len(names) \/ i > Len(args) THEN Bound(kwargs)
    ELSE IF names[i] \in DOMAIN kwargs THEN Raised("TypeError")
    ELSE bind_reversed(names, args,
                       kwargs @@ (names[i] :> args[Len(args) + 1 - i]), i + 1)

RECURSIVE bind(_, _, _, _)
\* for name, value in zip(parameter_names, args), from the i-th pair on:
\*     if name in kwargs: raise TypeError
\*     kwargs[name] = value
bind(names, args, kwargs, i) ==
    IF i > Len(names) \/ i > Len(args) THEN Bound(kwargs)
    ELSE IF names[i] \in DOMAIN kwargs THEN Raised("TypeError")
    ELSE bind(names, args, kwargs @@ (names[i] :> args[i]), i + 1)

\* ApiModel.__init__ before super().__init__(**kwargs)
named_arguments(args, kwargs) ==
    IF Len(args) > Len(parameter_names) THEN Raised("TypeError")
    ELSE bind(parameter_names, args, kwargs, 1)

\* The keyword that a field is populated from: its alias, or with
\* allow_population_by_field_name its name.
populated_from(field, kwargs) ==
    IF alias(field) \in DOMAIN kwargs THEN alias(field)
    ELSE IF field \in DOMAIN kwargs THEN field
    ELSE NoKeyword

\* MiraiBaseModel.__init__(**kwargs) with Config.extra = 'allow': the
\* values of the fields, then the keywords that populated no field.
model_values(kwargs) ==
    LET names_used == {populated_from(f, kwargs) : f \in Fields} \ {NoKeyword}
        extra == DOMAIN kwargs \ names_used
    IN  [key \in Fields \cup extra |->
            IF key \in extra THEN kwargs[key]
            ELSE IF populated_from(key, kwargs) = NoKeyword THEN None
            ELSE kwargs[populated_from(key, kwargs)]]

\* A required field is given by no keyword.
field_required(kwargs) ==
    \E f \in RequiredFields : populated_from(f, kwargs) = NoKeyword

\* self.dict(by_alias=True, exclude_none=True)
model_dict(values) ==
    LET kept == {key \in DOMAIN values : values[key] # None}
        dict_key(key) == IF key \in Fields THEN alias(key) ELSE key
    IN  [k \in {dict_key(key) : key \in kept} |->
            values[CHOOSE key \in kept : dict_key(key) = k]]

\* api = self.api_type(*args, **kwargs) and api.call up to its await of
\* call_api: the error raised, or the parameters handed to the transport.
api_call(args, kwargs) ==
    LET named == named_arguments(args, kwargs) IN
    IF named.raised # "none" THEN [raised |-> named.raised, params |-> <<>>]
    ELSE IF field_required(named.kwargs)
         THEN [raised |-> "ValidationError", params |-> <<>>]
    ELSE [raised |-> "none", params |-> model_dict(model_values(named.kwargs))]

not_api_model == <<bus, websocket, lifecycle, webhook, compose, http, use, approval, objects>>

\* Sequences of argument values of a length up to n.
ArgLists(n) == UNION {[1..k -> ArgValues] : k \in 0..n}

\* The keyword arguments of a call.
KeywordMaps == UNION {[keys -> ArgValues] : keys \in SUBSET Keywords}

\* A call of the proxy of SendFriendMessage that is about to be made.
InitApiModel ==
    /\ InitBus
    /\ NoAdapter
    /\ NoWebHook
    /\ NoCompose
    /\ NoHttp
    /\ NoUse
    /\ approval = NoApproval
    /\ NoObjects
    /\ \E args \in ArgLists(MaxArgs), kwargs \in KeywordMaps :
           api_model = [pc |-> "called", args |-> args, kwargs |-> kwargs,
                        raised |-> "none", api |-> None, params |-> <<>>]

\* Proxy._call_api: api = self.api_type(*args, **kwargs);
\* await api.call(self.api_provider, method, response_type)
ProxyCall ==
    LET made == api_call(api_model.args, api_model.kwargs) IN
    /\ api_model.pc = "called"
    /\ api_model' = [api_model EXCEPT
                        !.pc = IF made.raised = "none" THEN "call_api" ELSE "raised",
                        !.raised = made.raised,
                        !.api = IF made.raised = "none" THEN "sendFriendMessage" ELSE None,
                        !.params = made.params]
    /\ UNCHANGED not_api_model

\* The transport answers and the call returns.
ProxyReturn ==
    /\ api_model.pc = "call_api"
    /\ api_model' = [api_model EXCEPT !.pc = "returned"]
    /\ UNCHANGED not_api_model

NextApiModel ==
    \/ ProxyCall
    \/ ProxyReturn

SpecApiModel == InitApiModel /\ [][NextApiModel]_vars

\* The fields that the positional arguments of the call stand for.
PositionalFields ==
    {parameter_names[i] : i \in 1..Len(api_model.args)}

\* The call with the positional arguments passed by name instead.
PassedByName ==
    [key \in PositionalFields \cup DOMAIN api_model.kwargs |->
        IF key \in PositionalFields
        THEN api_model.args[CHOOSE i \in 1..Len(api_model.args) : parameter_names[i] = key]
        ELSE api_model.kwargs[key]]

\* More positional arguments than fields, or a field given both ways.
Misbound ==
    \/ Len(api_model.args) > Len(parameter_names)
    \/ \E i \in 1..Len(api_model.args) : parameter_names[i] \in DOMAIN api_model.kwargs

\* C30: positional arguments are bound to the fields in the order of their
\* declaration, so a call hands the transport what the call with the same
\* values passed by name hands it; more positional arguments than fields,
\* or a field given both positionally and by name, raise before the
\* transport is called; a keyword that is no field is accepted.
PositionalAsNamed ==
    api_model.pc \notin {"none", "called"} =>
        IF Misbound
        THEN api_model.pc = "raised" /\ api_model.raised = "TypeError"
        ELSE /\ api_model.raised = api_call(<<>>, PassedByName).raised
             /\ api_model.params = api_call(<<>>, PassedByName).params
             /\ api_model.raised # "TypeError"
             /\ (surplus \in DOMAIN api_model.kwargs /\ api_model.raised = "none") =>
                    api_model.params[surplus] = api_model.kwargs[surplus]

\* A call with two different positional arguments and a surplus keyword
\* has reached the transport with the arguments under the first two fields.
PositionalAsNamedReached ==
    /\ api_model.pc = "call_api"
    /\ Len(api_model.args) = 2
    /\ api_model.args[1] # api_model.args[2]
    /\ DOMAIN api_model.kwargs = {surplus}
    /\ api_model.params[alias(target)] = api_model.args[1]
    /\ api_model.params[alias(message_chain)] = api_model.args[2]

-----------------------------------------------------------------------------
(* MessageChain.exclude and MessageChain.__eq__                            *)

\* The longest chain or list that is followed.
MaxLen == 3

\* The state that the sections before this one follow.
settled == <<bus, websocket, lifecycle, webhook, compose, http, use, models>>

\* The message components: Plain(text) and At(target).
Components ==
    [type : {"Plain"}, v : {"a", "b"}] \cup [type : {"At"}, v : {"1", "2"}]

\* What a list compared with a chain may hold: components and strings.
Items == Components \cup [type : {"str"}, v : {"a", "b"}]

\* The component classes.
ComponentTypes == {"Plain", "At"}

\* a == b for a component a: Plain.__eq__ compares the text with that of
\* a Plain or with a str, At.__eq__ compares the target with that of an At.
component_eq(a, b) ==
    IF a.type = "Plain" THEN b.type \in {"Plain", "str"} /\ a.v = b.v
    ELSE b.type = "At" /\ a.v = b.v

\* What exclude is given: a component class, or a component.
Excluded ==
    [is_type : {TRUE}, type : ComponentTypes, v : {"none"}]
        \cup {[is_type |-> FALSE, type |-> c.type, v |-> c.v] : c \in Components}

\* (x_is_type and type(c) is x) or c == x
excludes(c, x) ==
    IF x.is_type THEN c.type = x.type
    ELSE component_eq(c, [type |-> x.type, v |-> x.v])

RECURSIVE exclude(_, _, _)
\* MessageChain.exclude: the components that _exclude() yields.
exclude(chain, x, count) ==
    IF chain = <<>> THEN <<>>
    ELSE IF count > 0 /\ excludes(Head(chain), x)
         THEN exclude(Tail(chain), x, count - 1)
         ELSE <<Head(chain)>> \o exclude(Tail(chain), x, count)

\* The shorter of two lengths: where zip stops.
shorter(m, n) == IF m < n THEN m ELSE n

\* MessageChain.__eq__: all(a == b for a, b in zip(self, other))
chain_eq(self, other) ==
    \A i \in 1..shorter(Len(self), Len(other)) : component_eq(self[i], other[i])

\* Sequences over a set of a length up to n.
UpTo(S, n) == UNION {[1..k -> S] : k \in 0..n}

\* The count given to exclude; -1 is the default of a call without one.
Counts == {-1} \cup (0..(MaxLen - 1))

not_chain_op == <<settled, code_op, http_poll, hook_race, asgi, plist, ingest>>

\* A call of exclude or a comparison that is about to be made.
InitChain ==
    /\ InitBus
    /\ NoAdapter
    /\ NoWebHook
    /\ NoCompose
    /\ NoHttp
    /\ NoUse
    /\ NoModels
    /\ code_op = Unused
    /\ http_poll = Unused
    /\ hook_race = Unused
    /\ asgi = Unused
    /\ plist = Unused
    /\ ingest = Unused
    /\ \E self \in UpTo(Components, MaxLen) :
        \/ \E x \in Excluded, count \in Counts :
              chain_op = [pc |-> "called", op |-> "exclude", self |-> self,
                          x |-> x, count |-> count, other |-> <<>>,
                          rest |-> <<>>, equal |-> FALSE]
        \/ \E other \in UpTo(Items, MaxLen) :
              chain_op = [pc |-> "called", op |-> "eq", self |-> self,
                          x |-> [is_type |-> TRUE, type |-> "Plain", v |-> "none"],
                          count |-> -1, other |-> other,
                          rest |-> <<>>, equal |-> FALSE]

\* chain.exclude(x, count)
ChainExclude ==
    /\ chain_op.pc = "called"
    /\ chain_op.op = "exclude"
    /\ chain_op' = [chain_op EXCEPT
                       !.pc = "returned",
                       !.rest = exclude(chain_op.self, chain_op.x, chain_op.count)]
    /\ UNCHANGED not_chain_op

\* chain == other
ChainEq ==
    /\ chain_op.pc = "called"
    /\ chain_op.op = "eq"
    /\ chain_op' = [chain_op EXCEPT
                       !.pc = "returned",
                       !.equal = chain_eq(chain_op.self, chain_op.other)]
    /\ UNCHANGED not_chain_op

NextChain ==
    \/ ChainExclude
    \/ ChainEq

SpecChain == InitChain /\ [][NextChain]_vars

\* The positions of the chain whose components exclude is to remove: the
\* matching ones, and with a count only the first count of them.
Removed ==
    LET self == chain_op.self
        matching == {i \in DOMAIN self : excludes(self[i], chain_op.x)}
    IN  {i \in matching :
            \/ chain_op.count = -1
            \/ Cardinality({j \in matching : j <= i}) <= chain_op.count}

RECURSIVE Without(_, _, _)
\* The components of a chain from position i on whose positions are not in P.
Without(chain, P, i) ==
    IF i > Len(chain) THEN <<>>
    ELSE (IF i \in P THEN <<>> ELSE <<chain[i]>>) \o Without(chain, P, i + 1)

\* C31: exclude without a count gives the chain without any component
\* that matches, the others in their order; with a count c >= 0 it gives
\* the chain without the first c matching components.
ExcludeRemoves ==
    (chain_op.pc = "returned" /\ chain_op.op = "exclude") =>
        chain_op.rest = Without(chain_op.self, Removed, 1)

\* C33: a chain equals a chain or list exactly when both have the same
\* length and their components are equal one by one in order.
ChainEqIsPairwise ==
    (chain_op.pc = "returned" /\ chain_op.op = "eq") =>
        chain_op.equal =
            (/\ Len(chain_op.self) = Len(chain_op.other)
             /\ \A i \in DOMAIN chain_op.self :
                    component_eq(chain_op.self[i], chain_op.other[i]))

-----------------------------------------------------------------------------
(* serialize and deserialize: escaping of mirai code                       *)

\* The longest string that is serialized.
MaxStr == 3

\* Strings are sequences of characters; LF and CR stand for the newline
\* and the carriage return.
Backslash == "\\"

\* The characters of the class [\[\]:,\\] of both regular expressions.
Escaped == {"[", "]", ":", ",", Backslash}

Alphabet == Escaped \cup {"n", "r", "LF", "CR"}

RECURSIVE escape(_)
\* re.sub(r'[\[\]:,\\]', lambda match: '\\' + match.group(0), s)
escape(s) ==
    IF s = <<>> THEN <<>>
    ELSE (IF Head(s) \in Escaped THEN <<Backslash, Head(s)>> ELSE <<Head(s)>>)
             \o escape(Tail(s))

RECURSIVE unescape(_)
\* re.sub(r'\\([\[\]:,\\])', lambda match: match.group(1), s)
unescape(s) ==
    IF s = <<>> THEN <<>>
    ELSE IF Len(s) >= 2 /\ s[1] = Backslash /\ s[2] \in Escaped
         THEN <<s[2]>> \o unescape(SubSeq(s, 3, Len(s)))
         ELSE <<Head(s)>> \o unescape(Tail(s))

RECURSIVE replace(_, _, _)
\* str.replace(old, new): the occurrences of old from the left, not
\* overlapping.
replace(s, old, new) ==
    IF Len(s) < Len(old) THEN s
    ELSE IF SubSeq(s, 1, Len(old)) = old
         THEN new \o replace(SubSeq(s, Len(old) + 1, Len(s)), old, new)
         ELSE <<Head(s)>> \o replace(Tail(s), old, new)

\* serialize(s)
serialize(s) ==
    replace(replace(escape(s), <<"LF">>, <<Backslash, "n">>),
            <<"CR">>, <<Backslash, "r">>)

\* deserialize(s)
deserialize(s) ==
    unescape(replace(replace(s, <<Backslash, "n">>, <<"LF">>),
                     <<Backslash, "r">>, <<"CR">>))

not_code_op == <<settled, chain_op, http_poll, hook_race, asgi, plist, ingest>>

\* A plain string that is about to be serialized.
InitCode ==
    /\ InitBus
    /\ NoAdapter
    /\ NoWebHook
    /\ NoCompose
    /\ NoHttp
    /\ NoUse
    /\ NoModels
    /\ chain_op = Unused
    /\ http_poll = Unused
    /\ hook_race = Unused
    /\ asgi = Unused
    /\ plist = Unused
    /\ ingest = Unused
    /\ \E s \in UpTo(Alphabet, MaxStr) :
           code_op = [pc |-> "plain", s |-> s, code |-> <<>>, back |-> <<>>]

\* code = serialize(s)
Serialize ==
    /\ code_op.pc = "plain"
    /\ code_op' = [code_op EXCEPT !.pc = "serialized", !.code = serialize(code_op.s)]
    /\ UNCHANGED not_code_op

\* back = deserialize(code)
Deserialize ==
    /\ code_op.pc = "serialized"
    /\ code_op' = [code_op EXCEPT !.pc = "deserialized",
                                  !.back = deserialize(code_op.code)]
    /\ UNCHANGED not_code_op

NextCode ==
    \/ Serialize
    \/ Deserialize

SpecCode == InitCode /\ [][NextCode]_vars

\* C32: deserialize(serialize(s)) is s for every plain string s.
SerializeRoundTrip ==
    code_op.pc = "deserialized" => code_op.back = code_op.s

-----------------------------------------------------------------------------
(* HTTPAdapter._background and HTTPAdapter.poll_event                      *)

\* The most polls that the loop starts and the most events of the gateway.
MaxPolls == 3

MaxQueued == 2

\* How a request of a poll ends: with a response, with a timeout (_get
\* returns None and the subscript raises TypeError), or with an error.
PollOutcomes == {"ok", "timeout", "error"}

\* A poll task that has sent countMessage.
NewPoll == [pc |-> "count", n |-> 0, count |-> 0, events |-> <<>>, started |-> <<>>]

\* A loop that waits for every poll it has started before it goes on.
awaits_polls(polls) == \A i \in DOMAIN polls : polls[i].pc \in {"done", "failed"}

\* What the loop waits for besides its sleep: nothing, the polls are
\* tasks of their own (self._tasks.create_task(self.poll_event())).
detached(polls) == TRUE

\* coros = [self.emit(msg['type'], msg) for msg in msg_list];
\* asyncio.gather(*coros): the emits in the order in which they start.
emits_of(msg_list) == msg_list

\* The first count messages of the gateway's queue.
fetch_message(queue, count) == SubSeq(queue, 1, shorter(count, Len(queue)))

not_http_poll == <<settled, chain_op, code_op, hook_race, asgi, plist, ingest>>

\* _background has started its first poll and sleeps.
InitPoll ==
    /\ InitBus
    /\ NoAdapter
    /\ NoWebHook
    /\ NoCompose
    /\ NoHttp
    /\ NoUse
    /\ NoModels
    /\ chain_op = Unused
    /\ code_op = Unused
    /\ hook_race = Unused
    /\ asgi = Unused
    /\ plist = Unused
    /\ ingest = Unused
    /\ http_poll = [pc |-> "running", clock |-> 0, polls |-> <<NewPoll>>,
                    queue |-> <<>>, sent |-> 0]

\* A poll interval passes: the sleep of the loop ends and, unless the
\* loop waits for something else, it starts the next poll and sleeps again.
Interval ==
    /\ http_poll.clock + 1 < MaxPolls
    /\ http_poll' = [http_poll EXCEPT
                        !.clock = @ + 1,
                        !.polls = IF detached(@) THEN Append(@, NewPoll) ELSE @]
    /\ UNCHANGED not_http_poll

\* The gateway has a new event for the bot.
GatewayQueues ==
    /\ http_poll.sent < MaxQueued
    /\ http_poll' = [http_poll EXCEPT !.sent = @ + 1,
                                      !.queue = Append(@, http_poll.sent + 1)]
    /\ UNCHANGED not_http_poll

\* countMessage of poll i ends; with msg_count > 0 the poll sends
\* fetchMessage with count = msg_count.
CountMessage(i, outcome) ==
    LET msg_count == Len(http_poll.queue) IN
    /\ i \in DOMAIN http_poll.polls
    /\ http_poll.polls[i].pc = "count"
    /\ http_poll' = [http_poll EXCEPT !.polls[i] =
           IF outcome # "ok" THEN [@ EXCEPT !.pc = "failed"]
           ELSE IF msg_count > 0
                THEN [@ EXCEPT !.pc = "fetch", !.n = msg_count, !.count = msg_count]
                ELSE [@ EXCEPT !.pc = "done"]]
    /\ UNCHANGED not_http_poll

\* fetchMessage of poll i ends; the poll starts the emits of the events.
FetchMessage(i, outcome) ==
    LET msg_list == fetch_message(http_poll.queue, http_poll.polls[i].count) IN
    /\ i \in DOMAIN http_poll.polls
    /\ http_poll.polls[i].pc = "fetch"
    /\ IF outcome # "ok"
       THEN http_poll' = [http_poll EXCEPT !.polls[i].pc = "failed"]
       ELSE http_poll' = [http_poll EXCEPT
                             !.queue = SubSeq(@, Len(msg_list) + 1, Len(@)),
                             !.polls[i] = [@ EXCEPT !.pc = "emitting",
                                                    !.events = msg_list,
                                                    !.started = emits_of(msg_list)]]
    /\ UNCHANGED not_http_poll

\* The emits of poll i are over: gather returns and the poll ends.
PollDone(i) ==
    /\ i \in DOMAIN http_poll.polls
    /\ http_poll.polls[i].pc = "emitting"
    /\ http_poll' = [http_poll EXCEPT !.polls[i].pc = "done"]
    /\ UNCHANGED not_http_poll

NextPoll ==
    \/ Interval
    \/ GatewayQueues
    \/ \E i \in 1..MaxPolls, outcome \in PollOutcomes : CountMessage(i, outcome)
    \/ \E i \in 1..MaxPolls, outcome \in PollOutcomes : FetchMessage(i, outcome)
    \/ \E i \in 1..MaxPolls : PollDone(i)

SpecPoll == InitPoll /\ [][NextPoll]_vars

\* C34: one poll has been started per poll interval passed, whatever
\* became of the earlier polls; a poll has sent fetchMessage only after
\* countMessage gave N > 0, and with count = N; the emits of a poll start
\* in the order of the events in the gateway's answer.
PollsAreDetached ==
    /\ Len(http_poll.polls) = http_poll.clock + 1
    /\ \A i \in DOMAIN http_poll.polls :
           LET poll == http_poll.polls[i] IN
           /\ poll.pc \in {"fetch", "emitting"} => (poll.n > 0 /\ poll.count = poll.n)
           /\ poll.n = 0 => (poll.count = 0 /\ poll.events = <<>>)
           /\ poll.started = poll.events
           /\ \A j, k \in DOMAIN poll.started : j < k => poll.started[j] < poll.started[k]

\* A poll was started while an earlier poll still waited for its answer
\* and another had failed, and it has started the emits of two events.
PollsAreDetachedReached ==
    \E i, j, k \in DOMAIN http_poll.polls :
        /\ i < k /\ j < k
        /\ http_poll.polls[i].pc = "count"
        /\ http_poll.polls[j].pc = "failed"
        /\ http_poll.polls[k].pc = "emitting"
        /\ Len(http_poll.polls[k].started) = 2

-----------------------------------------------------------------------------
(* WebSocketAdapter: the way of a frame from the connection to emit        *)

\* The most frames that the gateway sends and heartbeats that are sent.
MaxFrames == 3

MaxBeats == 1

\* The frames of the gateway: events under the sync id of the adapter,
\* well-formed, with an error code or without a type, and the answer to a
\* command under the sync id of that command.
FrameKinds ==
    {[syncId |-> sync_id, code |-> 0, has_type |-> TRUE],
     [syncId |-> sync_id, code |-> 5, has_type |-> TRUE],
     [syncId |-> sync_id, code |-> 0, has_type |-> FALSE],
     [syncId |-> str(1025), code |-> 0, has_type |-> FALSE]}

\* The n-th frame of the connection.
Frame(n, kind) ==
    [id |-> n, syncId |-> kind.syncId, code |-> kind.code, has_type |-> kind.has_type]

\* The newest data under the sync id of the adapter.
newest_event(d) == d[sync_id][Len(d[sync_id])]

\* _recv(self.sync_id, -1): the data that popleft() gives.
oldest_event(d) == Head(d[sync_id])

\* What poll_event ends with for the data it has taken: _recv raises
\* ApiError for a code, event['type'] raises KeyError without a type,
\* and else the emit task is created.
poll_outcome(data) ==
    IF data.code # 0 THEN "ApiError"
    ELSE IF ~data.has_type THEN "KeyError"
    ELSE "emit"

not_ingest == <<settled, chain_op, code_op, http_poll, hook_race, asgi, plist>>

\* A session has logged in and its background task runs.
InitIngest ==
    /\ InitBus
    /\ NoAdapter
    /\ NoWebHook
    /\ NoCompose
    /\ NoHttp
    /\ NoUse
    /\ NoModels
    /\ chain_op = Unused
    /\ code_op = Unused
    /\ http_poll = Unused
    /\ hook_race = Unused
    /\ asgi = Unused
    /\ plist = Unused
    /\ ingest = [pc |-> "running", heartbeat |-> "running", raised |-> "none",
                 stream |-> <<>>, sent |-> 0, read |-> <<>>,
                 recv_dict |-> recv_dict_touch(<<>>, sync_id),
                 emitted |-> <<>>, undispatched |-> {}, beats |-> 0]

\* The gateway writes a frame to the connection.
GatewaySends(kind) ==
    /\ ingest.sent < MaxFrames
    /\ ingest' = [ingest EXCEPT !.sent = @ + 1,
                                !.stream = Append(@, Frame(ingest.sent + 1, kind))]
    /\ UNCHANGED not_ingest

\* _receiver reads the next frame and files its data under its syncId.
ReceiverReads ==
    /\ ingest.stream # <<>>
    /\ LET response == Head(ingest.stream) IN
       ingest' = [ingest EXCEPT
                     !.stream = Tail(@),
                     !.read = Append(@, response),
                     !.recv_dict = recv_dict_append(@, frame_key(response), response)]
    /\ UNCHANGED not_ingest

\* One round of `while True: await self.poll_event()`: the next data under
\* the sync id of the adapter is taken and its emit task created; an
\* exception leaves the loop, and the finally clause cancels the heartbeat.
IngestPoll ==
    /\ ingest.pc = "running"
    /\ ingest.recv_dict[sync_id] # <<>>
    /\ LET event == oldest_event(ingest.recv_dict)
           outcome == poll_outcome(event)
       IN  ingest' = [ingest EXCEPT
                         !.recv_dict = recv_dict_popleft(@, sync_id),
                         !.emitted = IF outcome = "emit" THEN Append(@, event.id) ELSE @,
                         !.undispatched = IF outcome = "emit" THEN @ ELSE @ \cup {event.id},
                         !.pc = IF outcome = "emit" THEN "running" ELSE "failed",
                         !.raised = IF outcome = "emit" THEN "none" ELSE outcome,
                         !.heartbeat = IF outcome = "emit" THEN @ ELSE "cancelled"]
    /\ UNCHANGED not_ingest

\* _heartbeat sends a heartbeat.
Heartbeat ==
    /\ ingest.heartbeat = "running"
    /\ ingest.beats < MaxBeats
    /\ ingest' = [ingest EXCEPT !.beats = @ + 1]
    /\ UNCHANGED not_ingest

NextIngest ==
    \/ \E kind \in FrameKinds : GatewaySends(kind)
    \/ ReceiverReads
    \/ IngestPoll
    \/ Heartbeat

SpecIngest == InitIngest /\ [][NextIngest]_vars

\* The event frames that the receiver has read, in the order of reading.
EventsRead == SelectSeq(ingest.read, LAMBDA f : f.syncId = sync_id)

\* C35: the emit tasks are created in the order in which the receiver
\* read the event frames, no frame is emitted twice, and no frame under
\* the sync id of a command is emitted.
IngestIsFifo ==
    /\ Len(ingest.emitted) <= Len(EventsRead)
    /\ \A i \in DOMAIN ingest.emitted : ingest.emitted[i] = EventsRead[i].id
    /\ \A i, j \in DOMAIN ingest.emitted :
           i # j => ingest.emitted[i] # ingest.emitted[j]
    /\ \A i \in DOMAIN ingest.emitted :
           \A f \in {ingest.read[k] : k \in DOMAIN ingest.read} :
               f.id = ingest.emitted[i] => f.syncId # str(1025)

\* Two events were emitted that the receiver read around the answer to a
\* command.
IngestIsFifoReached ==
    /\ Len(ingest.emitted) = 2
    /\ Len(ingest.read) = 3
    /\ ingest.read[2].syncId = str(1025)
    /\ ingest.emitted = <<1, 3>>

\* C37: when poll_event has taken an event frame with a non-zero code or
\* without a type, the background task and the heartbeat are still running,
\* so that later event frames are emitted.
IngestSurvivesBadFrame ==
    ingest.undispatched # {} =>
        /\ ingest.pc = "running"
        /\ ingest.heartbeat = "running"

-----------------------------------------------------------------------------
(* EventBus.emit while its handlers subscribe and unsubscribe             *)

\* Bound on the subscribe and unsubscribe calls handlers make in one run.
MaxMutations == 1

\* The exception a set iterator raises when its set has changed size.
SetChanged == "RuntimeError: Set changed size during iteration"

\* emit as it would be if it awaited call(f) inside `for f in listeners`:
\* the iterator of the bucket's set lives until the last handler is done.
iterated_while_awaiting(em, ts) ==
    \A k \in em.gset : ts[k].st = "done"

\* asyncio.gather(*callee): the argument list is built before gather is
\* called, so the generator over the bucket's set is exhausted before the
\* first handler of the bucket runs.
unpacked(em, ts) == TRUE

\* A handler of the bucket being run is running or about to take its first
\* step: the code that calls subscribe or unsubscribe.
Running == \E k \in emit.gset : task[k].st \in {"ready", "suspended"}

\* The bucket emit is gathering, named by its event and priority.
running_bucket(em) == <<Head(em.chain), Head(em.buckets)>>

\* What the change of the registry does to the emit in progress: nothing,
\* unless the set of the running bucket changes size under its iterator.
mutated_emit(em, ts, subs) ==
    LET b == running_bucket(em) IN
    IF /\ ~unpacked(em, ts)
       /\ subs[b[1]].data[b[2]] # subscribers[b[1]].data[b[2]]
    THEN [em EXCEPT !.pc = "raised", !.exc = SetChanged]
    ELSE em

\* bus.subscribe(event, func, priority) called by a running handler.
MutateSubscribe(event, func, priority) ==
    /\ emit.pc = "gather"
    /\ Running
    /\ nops < MaxMutations
    /\ nops' = nops + 1
    /\ subscribers' = bus_subscribe(subscribers, event, func, priority)
    /\ warned' = FALSE
    /\ unsubscribed' = unsubscribed \ {<<event, func>>}
    /\ emit' = mutated_emit(emit, task, subscribers')
    /\ UNCHANGED <<middlewares, closure, task, reported>>
    /\ UNCHANGED adapters

\* bus.unsubscribe(event, func) called by a running handler.
MutateUnsubscribe(event, func) ==
    /\ emit.pc = "gather"
    /\ Running
    /\ nops < MaxMutations
    /\ nops' = nops + 1
    /\ subscribers' = bus_unsubscribe(subscribers, event, func)
    /\ warned' = bus_unsubscribe_warns(subscribers, event, func)
    /\ unsubscribed' = unsubscribed \cup {<<event, func>>}
    /\ emit' = mutated_emit(emit, task, subscribers')
    /\ UNCHANGED <<middlewares, closure, task, reported>>
    /\ UNCHANGED adapters

\* The subscriptions made before the event arrives: the plain function on
\* the event's own class, the coroutine function on it or on its base.
Subscriptions == BusEvents \X {"s1", "a1"} \X Priorities

RECURSIVE registered(_)
registered(S) ==
    IF S = {}
    THEN [e \in EventClasses |-> EmptyPriorityDict]
    ELSE LET s == CHOOSE x \in S : TRUE
         IN  bus_subscribe(registered(S \ {s}), s[1], s[2], s[3])

InitMutate ==
    /\ \E S \in SUBSET Subscriptions :
          /\ Cardinality(S) = 2
          /\ \E s \in S : s[1] = "FriendMessage" /\ s[2] = "s1"
          /\ \E s \in S : s[2] = "a1"
          /\ subscribers = registered(S)
    /\ middlewares = <<>>
    /\ closure = <<>>
    /\ nops = 0
    /\ warned = FALSE
    /\ unsubscribed = {}
    /\ emit = IdleEmit
    /\ task = <<>>
    /\ reported = {}
    /\ NoAdapter
    /\ NoServices

NextMutate ==
    \/ \E e \in BusEvents, f \in {"s1", "a1"}, p \in Priorities :
          MutateSubscribe(e, f, p)
    \/ \E e \in BusEvents, f \in {"s1", "a1"} : MutateUnsubscribe(e, f)
    \/ EmitStart("FriendMessage")
    \/ Dispatch

SpecMutate == InitMutate /\ [][NextMutate]_vars

\* The handlers that have a task of this emit although they are no longer
\* subscribed to the event the task ran for.
RanUnsubscribed ==
    {k \in DOMAIN task : k[3] \notin DOMAIN subscribers[k[1]].priorities}

\* C36: subscribe and unsubscribe calls made by handlers during an emit
\* never make the emit fail with the error of a changed set; while a
\* bucket is gathered, the handlers that were in the bucket when it was
\* started all have their task and the position of the traversal is one
\* the registry still has, from which the emit can go on.
DispatchSurvivesMutation ==
    /\ emit.exc # SetChanged
    /\ emit.pc = "gather" =>
          /\ \A k \in emit.gset : k \in DOMAIN task
          /\ \A k \in emit.gset : k[1] = Head(emit.chain) /\ k[2] = Head(emit.buckets)
          /\ Head(emit.buckets) \in DOMAIN subscribers[Head(emit.chain)].data
          /\ ENABLED Dispatch

\* An emit has returned in which a handler that ran had been unsubscribed
\* during the dispatch.
DispatchSurvivesMutationReached ==
    /\ emit.pc = "returned"
    /\ nops > 0
    /\ RanUnsubscribed # {}

-----------------------------------------------------------------------------
(* WebHookAdapter: the endpoint and Adapter.logout on one event loop      *)

\* Bound on the requests the gateway posts.
MaxRequests == 2

\* Bound on the login calls of the application.
MaxHookLogins == 2

RaceAccounts == {1, 12}

\* The extra_headers of the adapter: none, or one header under a lower-case
\* name.
RaceExtraHeaders == {<<>>, <<Item(<<"k">>, <<"v">>)>>}

\* qq = request.headers.get('bot', 'Unknown'); int(qq) when it is decimal.
\* A value that is not decimal stays a string, which is no key of sessions
\* (0 stands for it).
request_qq(headers) ==
    LET qq == headers_get(headers, BotHeader, <<"U", "n", "k", "n", "o", "w", "n">>)
    IN  IF isdecimal(qq) THEN int(qq) ELSE 0

\* self.sessions[qq] after `await request.json()`: the session, or KeyError.
sessions_lookup(logged_in, qq) ==
    IF qq \in logged_in THEN qq ELSE 0

not_hook_race == <<settled, chain_op, code_op, http_poll, asgi, plist, ingest>>

InitHookRace ==
    /\ InitBus
    /\ NoAdapter
    /\ NoWebHook
    /\ NoCompose
    /\ NoHttp
    /\ NoUse
    /\ NoModels
    /\ chain_op = Unused
    /\ code_op = Unused
    /\ http_poll = Unused
    /\ asgi = Unused
    /\ plist = Unused
    /\ ingest = Unused
    /\ \E expected \in RaceExtraHeaders :
          hook_race = [pc |-> "serving", extra_headers |-> expected,
                       sessions |-> {}, shutting |-> {}, logins |-> 0,
                       requests |-> <<>>]

\* Adapter.login: self.sessions[qq] = session
RaceLogin(qq) ==
    /\ hook_race.pc = "serving"
    /\ qq \notin hook_race.sessions
    /\ hook_race.logins < MaxHookLogins
    /\ hook_race' = [hook_race EXCEPT !.sessions = @ \cup {qq},
                                      !.logins = @ + 1]
    /\ UNCHANGED not_hook_race

\* Adapter.logout up to `await session.shutdown()`.
RaceLogoutStart(qq) ==
    /\ hook_race.pc = "serving"
    /\ qq \in hook_race.sessions
    /\ qq \notin hook_race.shutting
    /\ hook_race' = [hook_race EXCEPT !.shutting = @ \cup {qq}]
    /\ UNCHANGED not_hook_race

\* Adapter.logout after the shutdown: self.sessions.pop(qq)
RaceLogoutEnd(qq) ==
    /\ hook_race.pc = "serving"
    /\ qq \in hook_race.shutting
    /\ hook_race' = [hook_race EXCEPT !.shutting = @ \ {qq},
                                      !.sessions = @ \ {qq}]
    /\ UNCHANGED not_hook_race

\* The endpoint up to `event = await request.json()`: 404, 401, or the
\* request waits for its body.
RaceEndpoint(headers) ==
    /\ hook_race.pc = "serving"
    /\ Len(hook_race.requests) < MaxRequests
    /\ LET auth == endpoint_auth(hook_race.extra_headers, headers, hook_race.sessions)
           new == [qq |-> request_qq(headers), pc |-> "done", passed |-> FALSE,
                   status |-> 0, error |-> None, session |-> 0]
       IN  hook_race' = [hook_race EXCEPT !.requests = Append(@,
               CASE auth = "404" -> [new EXCEPT !.status = 404]
                 [] auth = "401" -> [new EXCEPT !.status = 401]
                 [] OTHER -> [new EXCEPT !.pc = "json", !.passed = TRUE])]
    /\ UNCHANGED not_hook_race

\* The body has been read: self.sessions[qq].handle_event(event) begins,
\* or the KeyError of the lookup leaves the endpoint (the server answers
\* 500).
RaceJson(i) ==
    /\ i \in DOMAIN hook_race.requests
    /\ hook_race.requests[i].pc = "json"
    /\ LET found == sessions_lookup(hook_race.sessions, hook_race.requests[i].qq)
       IN  hook_race' = [hook_race EXCEPT !.requests[i] =
               IF found = 0
               THEN [@ EXCEPT !.pc = "done", !.status = 500, !.error = "KeyError"]
               ELSE [@ EXCEPT !.pc = "handling", !.session = found]]
    /\ UNCHANGED not_hook_race

\* return YiriMiraiJSONResponse(result)
RaceHandled(i) ==
    /\ i \in DOMAIN hook_race.requests
    /\ hook_race.requests[i].pc = "handling"
    /\ hook_race' = [hook_race EXCEPT !.requests[i] =
                        [@ EXCEPT !.pc = "done", !.status = 200]]
    /\ UNCHANGED not_hook_race

NextHookRace ==
    \/ \E qq \in RaceAccounts : RaceLogin(qq)
    \/ \E qq \in RaceAccounts : RaceLogoutStart(qq)
    \/ \E qq \in RaceAccounts : RaceLogoutEnd(qq)
    \/ \E headers \in RequestHeaders : RaceEndpoint(headers)
    \/ \E i \in 1..MaxRequests : RaceJson(i)
    \/ \E i \in 1..MaxRequests : RaceHandled(i)

SpecHookRace == InitHookRace /\ [][NextHookRace]_vars

\* C38: a request that has passed the check of the bot header (and of the
\* extra headers) is handled by the session of its account and answered
\* 200, or answered 404; it never ends with an unhandled error, also when
\* the account logs out while the body of the request is read.
RequestHandledOrRejected ==
    hook_race.pc = "serving" =>
        \A i \in DOMAIN hook_race.requests :
            LET r == hook_race.requests[i] IN
            (r.passed /\ r.pc = "done") =>
                /\ r.error = None
                /\ \/ r.status = 404
                   \/ r.status = 200 /\ r.session = r.qq

-----------------------------------------------------------------------------
(* ASGI: several WebHook adapters on one route                             *)

\* Bound on the login calls made on the adapters of the front-end.
MaxAsgiLogins == 2

AdapterIds == {1, 2}

NoAnswer == [status |-> 0, by |-> 0]

\* The endpoint of one WebHook adapter: the response it returns.
adapter_endpoint(a, adapter, headers) ==
    LET auth == endpoint_auth(adapter.extra_headers, headers, adapter.sessions)
    IN  CASE auth = "404" -> [status |-> 404, by |-> a]
          [] auth = "401" -> [status |-> 401, by |-> a]
          [] auth = "KeyError" -> [status |-> 500, by |-> a]
          [] OTHER -> [status |-> 200, by |-> a]

\* `if result:` a Response object is true whatever its status; only the
\* None of an endpoint that answers nothing is false.
truth(result) == result # NoAnswer

\* ASGI._global_endpoint: the endpoints of the route in the order they were
\* added, up to the first that returns something; else the redirect.
RECURSIVE global_endpoint(_, _, _)
global_endpoint(routes, adapters_, headers) ==
    IF routes = <<>>
    THEN [status |-> 301, by |-> 0]
    ELSE LET result == adapter_endpoint(Head(routes), adapters_[Head(routes)], headers)
         IN  IF truth(result)
             THEN result
             ELSE global_endpoint(Tail(routes), adapters_, headers)

not_asgi == <<settled, chain_op, code_op, http_poll, hook_race, plist, ingest>>

InitAsgi ==
    /\ InitBus
    /\ NoAdapter
    /\ NoWebHook
    /\ NoCompose
    /\ NoHttp
    /\ NoUse
    /\ NoModels
    /\ chain_op = Unused
    /\ code_op = Unused
    /\ http_poll = Unused
    /\ hook_race = Unused
    /\ plist = Unused
    /\ ingest = Unused
    /\ \E expected \in [AdapterIds -> RaceExtraHeaders] :
          asgi = [pc |-> "serving", routes |-> <<>>,
                  adapters |-> [a \in AdapterIds |->
                                   [extra_headers |-> expected[a], sessions |-> {}]],
                  logins |-> 0, headers |-> <<>>, answer |-> NoAnswer]

Registered == {asgi.routes[i] : i \in DOMAIN asgi.routes}

\* WebHookAdapter.__init__: ASGI().add_route(self.route, endpoint,
\* methods=['POST']), every adapter on the default route.
AddRoute(a) ==
    /\ asgi.pc = "serving"
    /\ a \notin Registered
    /\ asgi' = [asgi EXCEPT !.routes = Append(@, a), !.headers = <<>>,
                            !.answer = NoAnswer]
    /\ UNCHANGED not_asgi

\* Adapter.login on one of the adapters.
AsgiLogin(a, qq) ==
    /\ asgi.pc = "serving"
    /\ a \in Registered
    /\ asgi.logins < MaxAsgiLogins
    /\ \A b \in AdapterIds : qq \notin asgi.adapters[b].sessions
    /\ asgi' = [asgi EXCEPT !.adapters[a].sessions = @ \cup {qq},
                            !.logins = @ + 1, !.headers = <<>>,
                            !.answer = NoAnswer]
    /\ UNCHANGED not_asgi

\* A POST on the route.
AsgiRequest(headers) ==
    /\ asgi.pc = "serving"
    /\ asgi.routes # <<>>
    /\ asgi' = [asgi EXCEPT !.headers = headers,
                            !.answer = global_endpoint(asgi.routes, asgi.adapters, headers)]
    /\ UNCHANGED not_asgi

NextAsgi ==
    \/ \E a \in AdapterIds : AddRoute(a)
    \/ \E a \in AdapterIds, qq \in RaceAccounts : AsgiLogin(a, qq)
    \/ \E headers \in RequestHeaders : AsgiRequest(headers)

SpecAsgi == InitAsgi /\ [][NextAsgi]_vars

\* The adapters on the route whose sessions and extra headers the request
\* fits.
Serving(headers) ==
    {a \in Registered :
        endpoint_auth(asgi.adapters[a].extra_headers, headers,
                      asgi.adapters[a].sessions) = "ok"}

\* C39: a request whose bot header names an account logged in on one of
\* the adapters of the route, with the extra headers of that adapter, is
\* answered 200 by that adapter, whatever the order of registration.
EachAdapterServesItsAccounts ==
    (asgi.pc = "serving" /\ asgi.answer # NoAnswer) =>
        (Serving(asgi.headers) # {} =>
            /\ asgi.answer.status = 200
            /\ asgi.answer.by \in Serving(asgi.headers))

-----------------------------------------------------------------------------
(* PriorityList (package YiriMirai)                                        *)

\* The largest priority handlers are subscribed with.
MaxPriority == 2

ListPriorities == 0..MaxPriority

ListValues == {"f", "g", "h"}

\* list.insert(index, item), index counted from 0.
insert(list, index, item) ==
    SubSeq(list, 1, index) \o <<item>> \o SubSeq(list, index + 1, Len(list))

\* list.pop(i), i counted from 0.
pop(list, i) == SubSeq(list, 1, i) \o SubSeq(list, i + 2, Len(list))

\* `if data == value: raise RuntimeError` somewhere in the loop of add.
add_raises(list, value) == \E i \in DOMAIN list : list[i][2] = value

\* The index the loop of add ends with: the last i (from 0) with
\* prior <= priority, or 0.
add_index(list, priority) ==
    LET at == {i \in DOMAIN list : list[i][1] <= priority}
    IN  IF at = {} THEN 0 ELSE (CHOOSE i \in at : \A j \in at : j <= i) - 1

\* PriorityList.add when the value is new.
priority_list_add(list, priority, value) ==
    insert(list, add_index(list, priority), <<priority, value>>)

\* PriorityList.remove: the first entry of the value is popped.
priority_list_remove(list, value) ==
    IF \E i \in DOMAIN list : list[i][2] = value
    THEN pop(list, (CHOOSE i \in DOMAIN list :
                       /\ list[i][2] = value
                       /\ \A j \in 1..(i - 1) : list[j][2] # value) - 1)
    ELSE list

not_plist == <<settled, chain_op, code_op, http_poll, hook_race, asgi, ingest>>

InitPriorityList ==
    /\ InitBus
    /\ NoAdapter
    /\ NoWebHook
    /\ NoCompose
    /\ NoHttp
    /\ NoUse
    /\ NoModels
    /\ chain_op = Unused
    /\ code_op = Unused
    /\ http_poll = Unused
    /\ hook_race = Unused
    /\ asgi = Unused
    /\ ingest = Unused
    /\ plist = [pc |-> "ready", list |-> <<>>, before |-> <<>>, op |-> None,
                raised |-> None, returned |-> FALSE]

\* EventBus.subscribe: self._subscribers[event].add(priority, func)
ListAdd(priority, value) ==
    /\ plist.pc = "ready"
    /\ plist' = [plist EXCEPT
                    !.before = plist.list,
                    !.op = "add",
                    !.returned = FALSE,
                    !.raised = IF add_raises(plist.list, value)
                               THEN "RuntimeError" ELSE None,
                    !.list = IF add_raises(plist.list, value)
                             THEN @ ELSE priority_list_add(@, priority, value)]
    /\ UNCHANGED not_plist

\* EventBus.unsubscribe: self._subscribers[event].remove(func)
ListRemove(value) ==
    /\ plist.pc = "ready"
    /\ plist' = [plist EXCEPT
                    !.before = plist.list,
                    !.op = "remove",
                    !.raised = None,
                    !.returned = \E i \in DOMAIN plist.list : plist.list[i][2] = value,
                    !.list = priority_list_remove(@, value)]
    /\ UNCHANGED not_plist

NextPriorityList ==
    \/ \E p \in ListPriorities, v \in ListValues : ListAdd(p, v)
    \/ \E v \in ListValues : ListRemove(v)

SpecPriorityList == InitPriorityList /\ [][NextPriorityList]_vars

\* C40: the entries of a PriorityList are in non-decreasing order of
\* priority after every add and remove, and an add that raised for a value
\* already present has left the list as it was.
PriorityListSorted ==
    plist.pc = "ready" =>
        /\ \A i, j \in DOMAIN plist.list :
               i < j => plist.list[i][1] <= plist.list[j][1]
        /\ plist.raised = "RuntimeError" => plist.list = plist.before

====
